---- MODULE Spec2Model ----
(***************************************************************************)
(* Verification model of realview_chat: the rate limiter, the retry        *)
(* helper, the LLM backends' _call, the property pipeline and the          *)
(* start-up (load_config, create_client).                                  *)
(*                                                                         *)
(* Time is counted in whole seconds.  requests_per_minute is drawn from    *)
(* the divisors of 60, for which 60.0 / requests_per_minute is an exact    *)
(* whole number of seconds, so that the float arithmetic of rate_limit.py  *)
(* is reproduced exactly by integer arithmetic.                            *)
(***************************************************************************)
EXTENDS Integers, Sequences, FiniteSets, TLC

\* ------------------------------------------------------------------ bounds
NumCallers == 3
MaxTime == 6
MaxInterval == 3
MaxNegRpm == 1
MaxScriptCalls == 1
MaxCalls == 3
MaxRetries == 3
MaxBackoff == 3
MaxImages == 3
MaxGated == 5
MaxBucket == 9
MaxRerunImages == 2
MaxNegCfg == 1
MaxCfgRetries == 1
MaxCfgBackoff == 1
MaxRunImages == 2
NumCases == 2
MaxScanImages == 2
MaxRuns == 2
NumHandlers == 2
MaxPosts == 2
MaxStatsPosts == 3

Threads == 1..NumCallers
NoThread == 0

\* requests_per_minute values handed to RateLimiter(...): the non-positive
\* ones from -MaxNegRpm up, and the divisors of 60 whose interval is at most
\* MaxInterval seconds (20, 30, 60 for MaxInterval = 3).
RpmValues ==
  ((0 - MaxNegRpm)..0) \cup {r \in 1..60 : 60 % r = 0 /\ 60 \div r <= MaxInterval}

VARIABLES
  limiter,       \* "unconstructed" | "ready" | "ValueError"
  ctorArgs,      \* <<requests_per_minute>> once RateLimiter(...) was called
  min_interval,  \* RateLimiter._min_interval
  last_time,     \* RateLimiter._last_time
  lock,          \* RateLimiter._lock: the holder, or NoThread
  clock,         \* time.monotonic()
  th,            \* per caller: pc, caller, seen, wakeAt
  acqTimes,      \* the values written to _last_time, in order
  reqLog,        \* the requests that reached the provider, in order
  scriptCalls,   \* number of calls of scripts/openai_pass1.run_pass1
  \* one backend _call, i.e. with_retry(execute, ...)
  backend,       \* "openai" | "google"
  op,            \* the operation that called _call
  max_retries,   \* with_retry parameter
  backoff_seconds, \* with_retry parameter, in units of half a second
  rpc,           \* position inside run_passN / with_retry / execute
  attempt,       \* with_retry local
  exc,           \* the exception being handled (with_retry line 27)
  sleep_time,    \* with_retry local (line 32)
  fnCalls,       \* number of invocations of fn
  sleeps,        \* the durations passed to time.sleep by with_retry, in order
  excLog,        \* the exceptions raised by fn, in order
  warnings,      \* the logger.warning calls of with_retry, in order
  acquisitions,  \* number of completed self._rate_limiter.wait() calls
  acquired,      \* wait() was called in the running execute()
  sent,          \* the provider requests of the call, in order
  opValue,       \* the value returned by the successful fn invocation
  ret,           \* how with_retry, or the stage function after it, ended
  \* one run of process_one -> process_property_from_folder
  ppc,           \* position of the run
  image_count,   \* len(image_paths); images are named 1..image_count
  pass1_results, \* _process_images local, one entry per gated image
  pass2_results, \* _process_images local
  pass25_results, \* _process_images local
  callLog,       \* the inference calls made through the client, in order
  failed,        \* <<the call that raised>>, or <<>>
  result,        \* <<the dict returned by _process_images>>, or <<>>
  out_file,      \* <<the content of results_<property_id>.json>>, or <<>>
  raw1Log,       \* the dicts returned by client.pass1, in order
  raw25Log,      \* the dicts returned by client.pass25, in order
  run,           \* 1 in the first run of _process_images, 2 or 3 in a second one
  first,         \* <<calls, answers and dict of the first run>>, in a second run
  error,         \* <<the exception that left _process_images>>, or <<>>
  \* start-up of scripts/run_pipeline.main
  cpc,           \* position of main: "start" | "create" | "ready" | "exit"
  env,           \* <<the environment load_config read>>, or <<>>
  config,        \* <<the AppConfig returned by load_config>>, or <<>>
  client,        \* "none" | "openai" | "google" | "ValueError"
  \* the provider calls of one run of the pipeline
  callsBegun,    \* number of client.pass1 / pass2 / pass25 calls begun
  requestsSent,  \* provider requests sent by the calls that have ended
  \* run_scan_mode
  spc,           \* position of run_scan_mode: "start" | "loop" | "done" | "exit"
  results,       \* results[c]: results_<c>.json exists in OUT_DIR
  to_process,    \* run_scan_mode local: the cases to process, in order
  skipped,       \* run_scan_mode local: the cases that have a results file
  pos,           \* index in to_process of the case the loop is at
  processed,     \* run_scan_mode local
  outcomes,      \* what process_one returned for the cases done, in order
  reported,      \* <<the count printed at the end>>, or <<>>
  fileLog,       \* the results files written, in order, with the run of main
  runsDone,      \* number of runs of main that have ended
  \* the review web service (web/backend/app.py)
  feedback_json, \* out/feedback.json: absent, a list of entries, or corrupt
  ground_truth,  \* the (property_id, filename) copied to out/ground_truth
  hnd,           \* the request handlers (threads of the server)
  posts,         \* number of POST /api/feedback requests received
  acked,         \* the entries answered with status 201, in order
  stats          \* <<what the last GET /api/stats read and returned>>, or <<>>

limVars == <<limiter, ctorArgs, min_interval, last_time, lock, clock, th,
             acqTimes, reqLog, scriptCalls>>

retVars == <<backend, op, max_retries, backoff_seconds, rpc, attempt, exc,
             sleep_time, fnCalls, sleeps, excLog, warnings, acquisitions,
             acquired, sent, opValue, ret>>

pipVars == <<ppc, image_count, pass1_results, pass2_results, pass25_results,
             callLog, failed, result, out_file,
             raw1Log, raw25Log, run, first, error>>

cfgVars == <<cpc, env, config, client>>

runVars == <<callsBegun, requestsSent>>

scanVars == <<spc, results, to_process, skipped, pos, processed, outcomes,
              reported, fileLog, runsDone>>

webVars == <<feedback_json, ground_truth, hnd, posts, acked, stats>>

vars == <<limVars, retVars, pipVars, cfgVars, runVars, scanVars, webVars>>

\* ---------------------------------------------------------- RateLimiter
\* faulty variant of InvalidRpm: only zero is refused ("if not ...")
InvalidRpmZeroOnly(requests_per_minute) == requests_per_minute = 0

\* rate_limit.py:11
InvalidRpm(requests_per_minute) == requests_per_minute <= 0

\* rate_limit.py:13; exact for the divisors of 60
MinIntervalOf(requests_per_minute) == 60 \div requests_per_minute

\* faulty variant of SleepTime: the operands of the subtraction swapped
SleepTimeSwapped(interval, now, last) == (now - last) - interval

\* rate_limit.py:20-21
SleepTime(interval, now, last) == interval - (now - last)

\* faulty variant of LockFree: wait() without the lock
LockFreeNoLock(holder) == TRUE

\* threading.Lock: acquirable only while nobody holds it
LockFree(holder) == holder = NoThread

IdleThread == [pc |-> "idle", caller |-> "none", seen |-> 0, wakeAt |-> 0]

InitLimiterVars ==
  /\ limiter = "unconstructed"
  /\ ctorArgs = <<>>
  /\ min_interval = 0
  /\ last_time = 0
  /\ lock = NoThread
  /\ clock = 0
  /\ th = [t \in Threads |-> IdleThread]
  /\ acqTimes = <<>>
  /\ reqLog = <<>>
  /\ scriptCalls = 0

\* RateLimiter.__init__, as part of the caller's step
RateLimiterCtor(rpm) ==
  /\ limiter = "unconstructed"
  /\ ctorArgs' = <<rpm>>
  /\ IF InvalidRpm(rpm)
       THEN /\ limiter' = "ValueError"
            /\ UNCHANGED <<min_interval, last_time, lock>>
       ELSE /\ limiter' = "ready"
            /\ min_interval' = MinIntervalOf(rpm)
            /\ lock' = NoThread
            /\ last_time' = 0
  /\ UNCHANGED <<clock, th, acqTimes, reqLog, scriptCalls>>

\* RateLimiter.__init__
RateLimiterInit(rpm) ==
  /\ RateLimiterCtor(rpm)
  /\ UNCHANGED <<retVars, pipVars, cfgVars, runVars, scanVars, webVars>>

\* the monotonic clock advances
Tick ==
  /\ limiter # "ValueError"
  /\ clock < MaxTime
  /\ clock' = clock + 1
  /\ UNCHANGED <<limiter, ctorArgs, min_interval, last_time, lock, th,
                 acqTimes, reqLog, scriptCalls>>
  /\ UNCHANGED <<retVars, pipVars, cfgVars, runVars, scanVars, webVars>>

\* calls of wait() made so far, completed or not
WaitCalls ==
  Len(acqTimes) + Cardinality({u \in Threads : th[u].pc \in {"wait", "read", "write"}})

\* a caller calls wait() on the limiter
CallWait(t) ==
  /\ limiter = "ready"
  /\ th[t].pc = "idle"
  /\ WaitCalls < MaxCalls
  /\ th' = [th EXCEPT ![t].pc = "wait", ![t].caller = "wait"]
  /\ UNCHANGED <<limiter, ctorArgs, min_interval, last_time, lock, clock,
                 acqTimes, reqLog, scriptCalls>>
  /\ UNCHANGED <<retVars, pipVars, cfgVars, runVars, scanVars, webVars>>

\* a caller enters execute() of a backend's _call (the same for pass1, pass2
\* and pass25); its first statement is self._rate_limiter.wait()
CallExecute(t) ==
  /\ limiter = "ready"
  /\ th[t].pc = "idle"
  /\ WaitCalls < MaxCalls
  /\ th' = [th EXCEPT ![t].pc = "wait", ![t].caller = "execute"]
  /\ UNCHANGED <<limiter, ctorArgs, min_interval, last_time, lock, clock,
                 acqTimes, reqLog, scriptCalls>>
  /\ UNCHANGED <<retVars, pipVars, cfgVars, runVars, scanVars, webVars>>

\* RateLimiter.wait, line 18: with self._lock
WaitLock(t) ==
  /\ th[t].pc = "wait"
  /\ LockFree(lock)
  /\ lock' = t
  /\ th' = [th EXCEPT ![t].pc = "read"]
  /\ UNCHANGED <<limiter, ctorArgs, min_interval, last_time, clock,
                 acqTimes, reqLog, scriptCalls>>
  /\ UNCHANGED <<retVars, pipVars, cfgVars, runVars, scanVars, webVars>>

\* RateLimiter.wait, lines 19-23: read the clock and _last_time, compute
\* sleep_time and start sleeping.  time.sleep returns no earlier than
\* sleep_time after line 19 was executed, and possibly later.
WaitRead(t) ==
  /\ th[t].pc = "read"
  /\ LET now == clock
         remaining == SleepTime(min_interval, now, last_time)
     IN th' = [th EXCEPT ![t].pc = "write",
                         ![t].seen = last_time,
                         ![t].wakeAt = IF remaining > 0 THEN now + remaining
                                                        ELSE now]
  /\ UNCHANGED <<limiter, ctorArgs, min_interval, last_time, lock, clock,
                 acqTimes, reqLog, scriptCalls>>
  /\ UNCHANGED <<retVars, pipVars, cfgVars, runVars, scanVars, webVars>>

\* rate_limit.py:23: time passes while a caller sleeps in time.sleep, until
\* its wake-up time
SleepElapses(t) ==
  /\ th[t].pc = "write"
  /\ clock < th[t].wakeAt
  /\ clock' = th[t].wakeAt
  /\ UNCHANGED <<limiter, ctorArgs, min_interval, last_time, lock, th,
                 acqTimes, reqLog, scriptCalls>>
  /\ UNCHANGED <<retVars, pipVars, cfgVars, runVars, scanVars, webVars>>

\* faulty variant of WaitWrite: wait() returns without releasing the lock
WaitWriteKeepsLock(t) ==
  /\ th[t].pc = "write"
  /\ clock >= th[t].wakeAt
  /\ last_time' = clock
  /\ acqTimes' = Append(acqTimes, clock)
  /\ lock' = lock
  /\ th' = [th EXCEPT ![t] = IF th[t].caller = "execute"
                                THEN [IdleThread EXCEPT !.pc = "send"]
                                ELSE IdleThread]
  /\ UNCHANGED <<limiter, ctorArgs, min_interval, clock, reqLog, scriptCalls>>
  /\ UNCHANGED <<retVars, pipVars, cfgVars, runVars, scanVars, webVars>>

\* RateLimiter.wait, line 24 and the end of the with block; wait() returns
\* to its caller
WaitWrite(t) ==
  /\ th[t].pc = "write"
  /\ clock >= th[t].wakeAt
  /\ last_time' = clock
  /\ acqTimes' = Append(acqTimes, clock)
  /\ lock' = NoThread
  /\ th' = [th EXCEPT ![t] = IF th[t].caller = "execute"
                                THEN [IdleThread EXCEPT !.pc = "send"]
                                ELSE IdleThread]
  /\ UNCHANGED <<limiter, ctorArgs, min_interval, clock, reqLog, scriptCalls>>
  /\ UNCHANGED <<retVars, pipVars, cfgVars, runVars, scanVars, webVars>>

\* execute(): the request to the provider that follows wait()
SendRequest(t) ==
  /\ th[t].pc = "send"
  /\ reqLog' = Append(reqLog, [at |-> clock, limited |-> TRUE])
  /\ th' = [th EXCEPT ![t] = IdleThread]
  /\ UNCHANGED <<limiter, ctorArgs, min_interval, last_time, lock, clock,
                 acqTimes, scriptCalls>>
  /\ UNCHANGED <<retVars, pipVars, cfgVars, runVars, scanVars, webVars>>

\* scripts/openai_pass1.run_pass1: client.chat.completions.create called
\* directly on an OpenAI client, no RateLimiter involved
ScriptRunPass1 ==
  /\ limiter # "ValueError"
  /\ scriptCalls < MaxScriptCalls
  /\ scriptCalls' = scriptCalls + 1
  /\ reqLog' = Append(reqLog, [at |-> clock, limited |-> FALSE])
  /\ UNCHANGED <<limiter, ctorArgs, min_interval, last_time, lock, clock, th,
                 acqTimes>>
  /\ UNCHANGED <<retVars, pipVars, cfgVars, runVars, scanVars, webVars>>

\* ------------------------------------- with_retry and the backends' _call
Backends == {"openai", "google"}

Ops == {"pass1", "pass2", "pass25"}

\* what the provider does with one request: a JSON document of the
\* schema's shape (json_a, json_b), a JSON document of another shape
\* (json_other, e.g. {} or a list), an empty body, a body that is not JSON,
\* or an error raised by the SDK call
Responses == {"json_a", "json_b", "json_other", "empty", "malformed", "api_error"}

NoExc == "none"

NoRet == [kind |-> "none", value |-> "none", cause |-> NoExc]

\* execute() after the request returned: OpenAIBackend raises ValueError on
\* empty content (responses.py:52-53) and json.loads raises on a malformed
\* body (line 54); GeminiBackend hands response.text to json.loads
\* (line 150), which raises on an empty and on a malformed body alike.
ExecuteResult(be, resp) ==
  CASE resp = "api_error" -> [kind |-> "raise", value |-> "none", cause |-> "APIError"]
    [] resp = "empty" ->
         IF be = "openai"
           THEN [kind |-> "raise", value |-> "none", cause |-> "ValueError"]
           ELSE [kind |-> "raise", value |-> "none", cause |-> "JSONDecodeError"]
    [] resp = "malformed" -> [kind |-> "raise", value |-> "none", cause |-> "JSONDecodeError"]
    [] OTHER -> [kind |-> "return", value |-> resp, cause |-> NoExc]

\* faulty variant of RetriesExceeded: gives up one attempt early
RetriesExceededOffByOne(att, mr) == att >= mr

\* retry.py:29
RetriesExceeded(att, mr) == att > mr

\* faulty variant of BackoffSleep: exponent attempt instead of attempt - 1
BackoffSleepNoShift(bo, att) == bo * (2 ^ att)

\* retry.py:32
BackoffSleep(bo, att) == bo * (2 ^ (att - 1))

InitRetryVars ==
  /\ backend = "openai"
  /\ op = "pass1"
  /\ max_retries = 0
  /\ backoff_seconds = 0
  /\ rpc = "idle"
  /\ attempt = 0
  /\ exc = NoExc
  /\ sleep_time = 0
  /\ fnCalls = 0
  /\ sleeps = <<>>
  /\ excLog = <<>>
  /\ warnings = <<>>
  /\ acquisitions = 0
  /\ acquired = FALSE
  /\ sent = <<>>
  /\ opValue = "none"
  /\ ret = NoRet

\* pass1 / pass2 / pass25 of a backend call self._call, which calls
\* with_retry(execute, max_retries=..., backoff_seconds=..., logger=...);
\* retry.py:23
CallBackend(be, o, mr, bo) ==
  /\ rpc = "idle"
  /\ backend' = be
  /\ op' = o
  /\ max_retries' = mr
  /\ backoff_seconds' = bo
  /\ attempt' = 0
  /\ rpc' = "try"
  /\ UNCHANGED <<exc, sleep_time, fnCalls, sleeps, excLog, warnings,
                 acquisitions, acquired, sent, opValue, ret>>
  /\ UNCHANGED <<limVars, pipVars, cfgVars, runVars, scanVars, webVars>>

\* retry.py:26: fn() is invoked, i.e. execute() is entered
TryFn ==
  /\ rpc = "try"
  /\ fnCalls' = fnCalls + 1
  /\ acquired' = FALSE
  /\ rpc' = "wait"
  /\ UNCHANGED <<backend, op, max_retries, backoff_seconds, attempt, exc,
                 sleep_time, sleeps, excLog, warnings, acquisitions, sent,
                 opValue, ret>>
  /\ UNCHANGED <<limVars, pipVars, cfgVars, runVars, scanVars, webVars>>

\* faulty variant of ExecuteWait: the limiter is passed on the first attempt
\* only, as if wait() were called before with_retry instead of inside execute
ExecuteWaitFirstAttemptOnly ==
  /\ rpc = "wait"
  /\ acquisitions' = IF attempt = 0 THEN acquisitions + 1 ELSE acquisitions
  /\ acquired' = (attempt = 0)
  /\ rpc' = "request"
  /\ UNCHANGED <<backend, op, max_retries, backoff_seconds, attempt, exc,
                 sleep_time, fnCalls, sleeps, excLog, warnings, sent,
                 opValue, ret>>
  /\ UNCHANGED <<limVars, pipVars, cfgVars, runVars, scanVars, webVars>>

\* execute(), first statement: self._rate_limiter.wait()
\* (responses.py:38 and 140)
ExecuteWait ==
  /\ rpc = "wait"
  /\ acquisitions' = acquisitions + 1
  /\ acquired' = TRUE
  /\ rpc' = "request"
  /\ UNCHANGED <<backend, op, max_retries, backoff_seconds, attempt, exc,
                 sleep_time, fnCalls, sleeps, excLog, warnings, sent,
                 opValue, ret>>
  /\ UNCHANGED <<limVars, pipVars, cfgVars, runVars, scanVars, webVars>>

\* execute(), the request and the decoding of its response; a value is
\* returned through with_retry (retry.py:26), an exception is caught by it
\* (retry.py:27)
ExecuteRequest(resp) ==
  /\ rpc = "request"
  /\ sent' = Append(sent, [attempt |-> fnCalls, acquired |-> acquired,
                           resp |-> resp])
  /\ LET r == ExecuteResult(backend, resp)
     IN IF r.kind = "return"
          THEN /\ opValue' = r.value
               /\ ret' = [kind |-> "value", value |-> r.value, cause |-> NoExc]
               /\ rpc' = "returned"
               /\ UNCHANGED <<exc, excLog>>
          ELSE /\ exc' = r.cause
               /\ excLog' = Append(excLog, r.cause)
               /\ rpc' = "except"
               /\ UNCHANGED <<opValue, ret>>
  /\ UNCHANGED <<backend, op, max_retries, backoff_seconds, attempt,
                 sleep_time, fnCalls, sleeps, warnings, acquisitions,
                 acquired>>
  /\ UNCHANGED <<limVars, pipVars, cfgVars, runVars, scanVars, webVars>>

\* retry.py:28-34: count the attempt, give up or compute the backoff and
\* report the failure to the logger (both backends pass one)
HandleFailure ==
  /\ rpc = "except"
  /\ attempt' = attempt + 1
  /\ IF RetriesExceeded(attempt + 1, max_retries)
       THEN /\ ret' = [kind |-> "RetryError", value |-> "none", cause |-> exc]
            /\ rpc' = "raised"
            /\ UNCHANGED <<sleep_time, warnings>>
       ELSE /\ sleep_time' = BackoffSleep(backoff_seconds, attempt + 1)
            /\ warnings' = Append(warnings, [exc |-> exc,
                                   sleep |-> BackoffSleep(backoff_seconds, attempt + 1)])
            /\ rpc' = "sleep"
            /\ UNCHANGED ret
  /\ UNCHANGED <<backend, op, max_retries, backoff_seconds, exc, fnCalls,
                 sleeps, excLog, acquisitions, acquired, sent, opValue>>
  /\ UNCHANGED <<limVars, pipVars, cfgVars, runVars, scanVars, webVars>>

\* retry.py:35, then back to the top of the loop
\* time.sleep raises ValueError on a negative duration, inside the except
\* block of with_retry: the ValueError leaves with_retry
BackoffSleepDone ==
  /\ rpc = "sleep"
  /\ IF sleep_time < 0
       THEN /\ ret' = [kind |-> "ValueError", value |-> "none", cause |-> exc]
            /\ rpc' = "sleep_raised"
            /\ UNCHANGED sleeps
       ELSE /\ sleeps' = Append(sleeps, sleep_time)
            /\ rpc' = "try"
            /\ UNCHANGED ret
  /\ UNCHANGED <<backend, op, max_retries, backoff_seconds, attempt, exc,
                 sleep_time, fnCalls, excLog, warnings, acquisitions,
                 acquired, sent, opValue>>
  /\ UNCHANGED <<limVars, pipVars, cfgVars, runVars, scanVars, webVars>>

\* run_pass1 / run_pass2 / run_pass25 after client.passN returned the
\* decoded document (pass1.py:23-25, pass2.py:20-27, pass25.py:28-40): the
\* fields are read with result["..."], outside with_retry; a document of
\* another shape raises KeyError (TypeError for a list), which leaves the
\* stage function
StageReadsResult ==
  /\ rpc = "returned"
  /\ IF opValue = "json_other"
       THEN /\ ret' = [kind |-> "KeyError", value |-> "none", cause |-> NoExc]
            /\ rpc' = "stage_raised"
       ELSE /\ rpc' = "stage_returned"
            /\ UNCHANGED ret
  /\ UNCHANGED <<backend, op, max_retries, backoff_seconds, attempt, exc,
                 sleep_time, fnCalls, sleeps, excLog, warnings, acquisitions,
                 acquired, sent, opValue>>
  /\ UNCHANGED <<limVars, pipVars, cfgVars, runVars, scanVars, webVars>>

\* max_retries is a number of retries, 0 and up (default 3), and
\* backoff_seconds a positive duration (default 1.5 s = 3 half seconds)
NextRetry ==
  \/ \E be \in Backends, o \in Ops, mr \in 0..MaxRetries, bo \in 1..MaxBackoff :
       CallBackend(be, o, mr, bo)
  \/ TryFn
  \/ ExecuteWait
  \/ \E resp \in Responses : ExecuteRequest(resp)
  \/ HandleFailure
  \/ BackoffSleepDone
  \/ StageReadsResult


\* ------------------------------------------ load_config, create_client
\* what load_config reads: LLM_PROVIDER (lowercased), whether the two API
\* keys are set and non-empty, the three numbers as int() / float() parse
\* them, and whether they parse at all
Environments ==
  [provider : {"openai", "google", "other"},
   openai_api_key : BOOLEAN,
   google_api_key : BOOLEAN,
   requests_per_minute : RpmValues,
   max_retries : (0 - MaxNegCfg)..MaxCfgRetries,
   retry_backoff_seconds : (0 - MaxNegCfg)..MaxCfgBackoff,
   parses : BOOLEAN]

InitConfigVars ==
  /\ cpc = "start"
  /\ env = <<>>
  /\ config = <<>>
  /\ client = "none"

\* config.py:33-38, and int() / float() of lines 47-49 on a text that is
\* no number: load_config raises ValueError
LoadConfigRaises(e) ==
  \/ e.provider = "google" /\ ~e.google_api_key
  \/ e.provider = "openai" /\ ~e.openai_api_key
  \/ ~e.parses

\* config.py:22-50, called by main (run_pipeline.py:120-124); a ValueError
\* ends main by sys.exit
LoadConfig(e) ==
  /\ cpc = "start"
  /\ env' = <<e>>
  /\ IF LoadConfigRaises(e)
       THEN /\ cpc' = "exit"
            /\ UNCHANGED config
       ELSE /\ config' = <<[llm_provider |-> e.provider,
                            openai_api_key |-> e.openai_api_key,
                            google_api_key |-> e.google_api_key,
                            requests_per_minute |-> e.requests_per_minute,
                            max_retries |-> e.max_retries,
                            retry_backoff_seconds |-> e.retry_backoff_seconds]>>
            /\ cpc' = "create"
  /\ UNCHANGED client
  /\ UNCHANGED <<limVars, retVars, pipVars, runVars, scanVars, webVars>>

\* responses.py:176-188, called by main; a ValueError ends main
CreateClient ==
  /\ cpc = "create"
  /\ RateLimiterCtor(config[1].requests_per_minute)
  /\ client' =
       IF InvalidRpm(config[1].requests_per_minute) THEN "ValueError"
       ELSE IF config[1].llm_provider = "google"
              THEN (IF ~config[1].google_api_key THEN "ValueError" ELSE "google")
              ELSE (IF ~config[1].openai_api_key THEN "ValueError" ELSE "openai")
  /\ cpc' = IF client' = "ValueError" THEN "exit" ELSE "ready"
  /\ UNCHANGED <<env, config>>
  /\ UNCHANGED <<retVars, pipVars, runVars, scanVars, webVars>>

\* responses.py:30-31, 56-61 (106-107, 152 for Gemini): a call of the
\* client made by the pipeline runs with_retry with the numbers of the
\* AppConfig the client was built from
ClientCall(o) ==
  /\ cpc = "ready"
  /\ CallBackend(client, o, config[1].max_retries, config[1].retry_backoff_seconds)

\* main from its start to the end of the first inference call
NextConfig ==
  \/ \E e \in Environments : LoadConfig(e)
  \/ CreateClient
  \/ ClientCall("pass1")
  \/ TryFn
  \/ ExecuteWait
  \/ \E resp \in Responses : ExecuteRequest(resp)
  \/ HandleFailure
  \/ BackoffSleepDone
  \/ StageReadsResult

\* --------------------------------------------------- property pipeline
\* pass1.py:11
ALLOWED_ROOMS == {"bathroom", "kitchen"}

\* a part of schemas.ROOM_TYPES: the two allowed rooms and one other
RoomTypes == {"kitchen", "bathroom", "exterior"}

\* confidence values, in tenths
Confidences == {5, 9}

\* the room_type argument of a call that has none (pass1, pass2)
NoRoom == "none"

\* what client.pass1 can return; the lower confidence is drawn for kitchen
\* answers only, which keeps the set small
RawPass1 ==
  {raw \in [room_type : RoomTypes, actionable : BOOLEAN, confidence : Confidences] :
     raw.confidence = 5 => raw.room_type = "kitchen"}

\* what client.pass2 can return (result["features"], by feature_id)
RawPass2 == {<<>>, <<"mold">>}

\* what client.pass25 can return
RawPass25 == [room_type : RoomTypes, confirmed_features : {<<>>, <<"mold">>}]

\* faulty variant of RunPass1: an answer of low confidence is gated as not
\* actionable
RunPass1LowConfidenceDropped(raw) ==
  [room_type |-> raw.room_type,
   actionable |-> IF raw.room_type \notin ALLOWED_ROOMS \/ raw.confidence < 9
                    THEN FALSE ELSE raw.actionable,
   confidence |-> raw.confidence]

\* faulty variant of RunPass1: the model's actionable flag is returned as
\* it is, for every room type
RunPass1KeepsFlag(raw) ==
  [room_type |-> raw.room_type,
   actionable |-> raw.actionable,
   confidence |-> raw.confidence]

\* faulty variant of RunPass1: the model's actionable flag is kept for a
\* room type outside ALLOWED_ROOMS and dropped for one inside
RunPass1InvertedPolicy(raw) ==
  [room_type |-> raw.room_type,
   actionable |-> IF raw.room_type \in ALLOWED_ROOMS THEN FALSE
                                                     ELSE raw.actionable,
   confidence |-> raw.confidence]

\* pass1.py:21-34
RunPass1(raw) ==
  [room_type |-> raw.room_type,
   actionable |-> IF raw.room_type \notin ALLOWED_ROOMS THEN FALSE
                                                        ELSE raw.actionable,
   confidence |-> raw.confidence]

\* faulty variant of GroupStep: the image is put in front of its bucket
GroupStepNewestFirst(g, pass1, k) ==
  IF ~pass1.actionable THEN g
  ELSE IF \E j \in 1..Len(g) : g[j].room_type = pass1.room_type
         THEN LET j == CHOOSE j \in 1..Len(g) : g[j].room_type = pass1.room_type
              IN [g EXCEPT ![j].items = <<k>> \o @]
         ELSE Append(g, [room_type |-> pass1.room_type, items |-> <<k>>])

\* property_processor.py:50-53: one iteration of the grouping loop, for
\* image k with Pass1Result pass1; room_groups is an ordered dict, kept as
\* the sequence of its (room_type, items) entries
GroupStep(g, pass1, k) ==
  IF ~pass1.actionable THEN g
  ELSE IF \E j \in 1..Len(g) : g[j].room_type = pass1.room_type
         THEN LET j == CHOOSE j \in 1..Len(g) : g[j].room_type = pass1.room_type
              IN [g EXCEPT ![j].items = Append(@, k)]
         ELSE Append(g, [room_type |-> pass1.room_type, items |-> <<k>>])

\* property_processor.py:48-53: room_groups after the first k images
RECURSIVE RoomGroupsUpTo(_, _)
RoomGroupsUpTo(p1, k) ==
  IF k = 0 THEN <<>>
  ELSE GroupStep(RoomGroupsUpTo(p1, k - 1), p1[k], k)

RoomGroups(p1) == RoomGroupsUpTo(p1, Len(p1))

\* faulty variant of ChunkImages: the bucket is handed over as one chunk
ChunkImagesWhole(items, chunk_size) == <<items>>

\* faulty variant of ChunkImages: the images after the last full chunk are
\* left out
ChunkImagesFullOnly(items, chunk_size) ==
  [c \in 1..(Len(items) \div chunk_size) |->
     SubSeq(items, (c - 1) * chunk_size + 1, c * chunk_size)]

\* property_processor.py:23-25
ChunkImages(items, chunk_size) ==
  [c \in 1..((Len(items) + chunk_size - 1) \div chunk_size) |->
     SubSeq(items, (c - 1) * chunk_size + 1,
            IF c * chunk_size < Len(items) THEN c * chunk_size ELSE Len(items))]

\* faulty variant of TooFewImages: only an empty bucket is skipped
TooFewImagesEmptyOnly(items) == Len(items) < 1

\* property_processor.py:56-57: the bucket is skipped
TooFewImages(items) == Len(items) < 2

\* property_processor.py:56-64: the run_pass25 calls of the run, in order,
\* from group g on
RECURSIVE Pass25CallsFrom(_, _)
Pass25CallsFrom(groups, g) ==
  IF g > Len(groups) THEN <<>>
  ELSE (IF TooFewImages(groups[g].items) THEN <<>>
        ELSE LET chunks == ChunkImages(groups[g].items, 4)
             IN [c \in 1..Len(chunks) |->
                   [room_type |-> groups[g].room_type, chunk |-> chunks[c]]])
       \o Pass25CallsFrom(groups, g + 1)

Pass25Calls(p1) == Pass25CallsFrom(RoomGroups(p1), 1)

\* property_processor.py:66-73
AllImageEntries(p1, p2) ==
  [i \in 1..Len(p1) |-> [filename |-> i, pass1 |-> p1[i], pass2 |-> p2[i]]]

IsTarget(img) ==
  /\ img.pass1.room_type \in {"kitchen", "bathroom"}
  /\ img.pass1.actionable

\* faulty variant of TargetImages: the filter left out
TargetImagesUnfiltered(entries) == entries

\* property_processor.py:76-81
TargetImages(entries) == SelectSeq(entries, IsTarget)

\* faulty variant of ReviewImages: the targets are not left out
ReviewImagesAll(entries) == entries

\* property_processor.py:82-86
ReviewImages(entries) ==
  LET target_filenames == {TargetImages(entries)[i].filename :
                             i \in 1..Len(TargetImages(entries))}
      NotTarget(img) == img.filename \notin target_filenames
  IN SelectSeq(entries, NotTarget)

Filenames(entries) == [i \in 1..Len(entries) |-> entries[i].filename]

\* property_processor.py:66-95 (created_at, a wall-clock stamp, left out)
Assemble(p1, p2, p25) ==
  LET all_image_entries == AllImageEntries(p1, p2)
  IN [images |-> all_image_entries,
      target_images |-> Filenames(TargetImages(all_image_entries)),
      review_images |-> Filenames(ReviewImages(all_image_entries)),
      rooms |-> p25]

\* retry.py:30: the exception with which a client call ends once the
\* retries are exhausted, as it reaches process_one: RetryError("Exceeded
\* max retries"), chained to the last exception of the provider call.
\* run_pass1/2/25, _process_images and process_property_from_folder neither
\* catch nor wrap it; its traceback holds the frame of the stage function
\* that made the call (stage), and neither it nor the message names an
\* image or a room type.
RetryError(stage) ==
  [type |-> "RetryError", message |-> "Exceeded max retries",
   stage |-> stage, room_type |-> NoRoom, images |-> <<>>]

\* image_loader.py:12-16: FileNotFoundError / NotADirectoryError naming the
\* folder
LoadError ==
  [type |-> "FileNotFoundError", message |-> "Image folder not found",
   stage |-> "load", room_type |-> NoRoom, images |-> <<>>]

\* the answers a deterministic inference capability may give in a second
\* run over the same images: to a request it answered in the first run,
\* the same answer (run = 2), or, for pass 1, the same answer but for its
\* confidence (run = 3)
SameAnswer1(i, raw) ==
  /\ run = 2 /\ i <= Len(first[1].raw1Log) => raw = first[1].raw1Log[i]
  /\ run = 3 /\ i <= Len(first[1].raw1Log) =>
       /\ raw.room_type = first[1].raw1Log[i].room_type
       /\ raw.actionable = first[1].raw1Log[i].actionable

SameAnswer2(i, features) ==
  run # 1 /\ i <= Len(first[1].pass2_results) => features = first[1].pass2_results[i]

SameAnswer25(call, raw) ==
  run # 1 =>
    LET calls == SelectSeq(first[1].callLog, LAMBDA c : c.stage = "pass25")
    IN \A k \in 1..Len(calls) :
         (calls[k].room_type = call.room_type /\ calls[k].images = call.chunk)
           => raw = first[1].pass25_results[k]

\* the request was not made in the first run (the first run answered every
\* request it made)
Unanswered(stage, room_type, images) ==
  run # 1 =>
    \A k \in 1..Len(first[1].callLog) :
      first[1].callLog[k] # [stage |-> stage, room_type |-> room_type,
                             images |-> images]

InitPipelineVars ==
  /\ ppc = "idle"
  /\ image_count = 0
  /\ pass1_results = <<>>
  /\ pass2_results = <<>>
  /\ pass25_results = <<>>
  /\ callLog = <<>>
  /\ failed = <<>>
  /\ result = <<>>
  /\ out_file = <<>>
  /\ raw1Log = <<>>
  /\ raw25Log = <<>>
  /\ run = 1
  /\ first = <<>>
  /\ error = <<>>

\* the code that follows the image loop (lines 48-95) up to the next
\* inference call: either a run_pass25 call is due or the dict is returned
AfterImageLoop(p1, p2) ==
  IF Pass25Calls(p1) = <<>>
    THEN /\ result' = <<Assemble(p1, p2, <<>>)>>
         /\ ppc' = "returned"
    ELSE /\ ppc' = "pass25"
         /\ UNCHANGED result

\* client.pass1 answers in which the model sets its own actionable flag,
\* for the two allowed room types and for one outside the allow-list, and
\* one in which it does not
RawPass1Samples ==
  {[room_type |-> r, actionable |-> TRUE, confidence |-> 9] : r \in RoomTypes}
  \cup {[room_type |-> "kitchen", actionable |-> FALSE, confidence |-> 5]}

\* property_processor.py:28-53: _process_images on a folder of Len(raws)
\* images, the whole image loop with no call raising: client.pass1 answers
\* raws[i] for image i and client.pass2 finds no feature; then the code up
\* to the first run_pass25 call
ImageLoop(raws) ==
  /\ ppc = "idle"
  /\ LET n == Len(raws)
         p1 == [i \in 1..n |-> RunPass1(raws[i])]
         p2 == [i \in 1..n |-> <<>>]
     IN /\ image_count' = n
        /\ raw1Log' = raws
        /\ pass1_results' = p1
        /\ pass2_results' = p2
        /\ callLog' = [k \in 1..(2 * n) |->
                         [stage |-> IF k % 2 = 1 THEN "pass1" ELSE "pass2",
                          room_type |-> NoRoom,
                          images |-> <<(k + 1) \div 2>>]]
        /\ AfterImageLoop(p1, p2)
  /\ UNCHANGED <<pass25_results, failed, out_file>>
  /\ UNCHANGED <<raw25Log, run, first, error>>
  /\ UNCHANGED <<limVars, retVars, cfgVars, runVars, scanVars, webVars>>

\* process_one -> process_property_from_folder -> _process_images on a
\* folder of n images, up to the first inference call
ProcessOne(n) ==
  /\ ppc = "idle"
  /\ image_count' = n
  /\ IF n = 0
       THEN AfterImageLoop(<<>>, <<>>)
       ELSE ppc' = "pass1" /\ UNCHANGED result
  /\ UNCHANGED <<pass1_results, pass2_results, pass25_results, callLog,
                 failed, out_file>>
  /\ UNCHANGED <<raw1Log, raw25Log, run, first, error>>
  /\ UNCHANGED <<limVars, retVars, cfgVars, runVars, scanVars, webVars>>

\* list_image_files or load_images_as_data_urls raises (folder missing,
\* file unreadable)
LoadRaises ==
  /\ ppc = "idle"
  /\ failed' = <<[stage |-> "load", images |-> <<>>]>>
  /\ ppc' = "raised"
  /\ UNCHANGED <<image_count, pass1_results, pass2_results, pass25_results,
                 callLog, result, out_file>>
  /\ error' = <<LoadError>>
  /\ UNCHANGED <<raw1Log, raw25Log, run, first>>
  /\ UNCHANGED <<limVars, retVars, cfgVars, runVars, scanVars, webVars>>

\* property_processor.py:40-41: run_pass1 returns
Pass1Returns(raw) ==
  /\ ppc = "pass1"
  /\ SameAnswer1(Len(pass1_results) + 1, raw)
  /\ callLog' = Append(callLog, [stage |-> "pass1", room_type |-> NoRoom,
                                 images |-> <<Len(pass1_results) + 1>>])
  /\ pass1_results' = Append(pass1_results, RunPass1(raw))
  /\ ppc' = "pass2"
  /\ raw1Log' = Append(raw1Log, raw)
  /\ UNCHANGED <<image_count, pass2_results, pass25_results, failed, result,
                 out_file>>
  /\ UNCHANGED <<raw25Log, run, first, error>>
  /\ UNCHANGED <<limVars, retVars, cfgVars, runVars, scanVars, webVars>>

\* property_processor.py:40: client.pass1 raises (RetryError of with_retry)
Pass1Raises ==
  /\ ppc = "pass1"
  /\ Unanswered("pass1", NoRoom, <<Len(pass1_results) + 1>>)
  /\ callLog' = Append(callLog, [stage |-> "pass1", room_type |-> NoRoom,
                                 images |-> <<Len(pass1_results) + 1>>])
  /\ failed' = <<[stage |-> "pass1", images |-> <<Len(pass1_results) + 1>>]>>
  /\ ppc' = "raised"
  /\ UNCHANGED <<image_count, pass1_results, pass2_results, pass25_results,
                 result, out_file>>
  /\ error' = <<RetryError("pass1")>>
  /\ UNCHANGED <<raw1Log, raw25Log, run, first>>
  /\ UNCHANGED <<limVars, retVars, cfgVars, runVars, scanVars, webVars>>

\* faulty variant of Pass2Returns: the image loop stops one image early
Pass2ReturnsLoopEndsEarly(features) ==
  /\ ppc = "pass2"
  /\ SameAnswer2(Len(pass2_results) + 1, features)
  /\ callLog' = Append(callLog, [stage |-> "pass2", room_type |-> NoRoom,
                                 images |-> <<Len(pass2_results) + 1>>])
  /\ pass2_results' = Append(pass2_results, features)
  /\ IF Len(pass2_results) + 2 < image_count
       THEN ppc' = "pass1" /\ UNCHANGED result
       ELSE AfterImageLoop(pass1_results, Append(pass2_results, features))
  /\ UNCHANGED <<image_count, pass1_results, pass25_results, failed, out_file>>
  /\ UNCHANGED <<raw1Log, raw25Log, run, first, error>>
  /\ UNCHANGED <<limVars, retVars, cfgVars, runVars, scanVars, webVars>>

\* property_processor.py:43-46: run_pass2 is called for the image just
\* gated, whatever its pass1 result, and returns; then the next image, or
\* the code after the loop
Pass2Returns(features) ==
  /\ ppc = "pass2"
  /\ SameAnswer2(Len(pass2_results) + 1, features)
  /\ callLog' = Append(callLog, [stage |-> "pass2", room_type |-> NoRoom,
                                 images |-> <<Len(pass2_results) + 1>>])
  /\ pass2_results' = Append(pass2_results, features)
  /\ IF Len(pass2_results) + 1 < image_count
       THEN ppc' = "pass1" /\ UNCHANGED result
       ELSE AfterImageLoop(pass1_results, Append(pass2_results, features))
  /\ UNCHANGED <<image_count, pass1_results, pass25_results, failed, out_file>>
  /\ UNCHANGED <<raw1Log, raw25Log, run, first, error>>
  /\ UNCHANGED <<limVars, retVars, cfgVars, runVars, scanVars, webVars>>

\* faulty variant of Pass2Raises: the exception is caught inside the image
\* loop, the image gets no features and the run goes on
Pass2RaisesSwallowed ==
  /\ ppc = "pass2"
  /\ Unanswered("pass2", NoRoom, <<Len(pass2_results) + 1>>)
  /\ callLog' = Append(callLog, [stage |-> "pass2", room_type |-> NoRoom,
                                 images |-> <<Len(pass2_results) + 1>>])
  /\ failed' = <<[stage |-> "pass2", images |-> <<Len(pass2_results) + 1>>]>>
  /\ pass2_results' = Append(pass2_results, <<>>)
  /\ IF Len(pass2_results) + 1 < image_count
       THEN ppc' = "pass1" /\ UNCHANGED result
       ELSE AfterImageLoop(pass1_results, Append(pass2_results, <<>>))
  /\ UNCHANGED <<image_count, pass1_results, pass25_results, out_file>>
  /\ error' = <<RetryError("pass2")>>
  /\ UNCHANGED <<raw1Log, raw25Log, run, first>>
  /\ UNCHANGED <<limVars, retVars, cfgVars, runVars, scanVars, webVars>>

\* property_processor.py:45: client.pass2 raises
Pass2Raises ==
  /\ ppc = "pass2"
  /\ Unanswered("pass2", NoRoom, <<Len(pass2_results) + 1>>)
  /\ callLog' = Append(callLog, [stage |-> "pass2", room_type |-> NoRoom,
                                 images |-> <<Len(pass2_results) + 1>>])
  /\ failed' = <<[stage |-> "pass2", images |-> <<Len(pass2_results) + 1>>]>>
  /\ ppc' = "raised"
  /\ UNCHANGED <<image_count, pass1_results, pass2_results, pass25_results,
                 result, out_file>>
  /\ error' = <<RetryError("pass2")>>
  /\ UNCHANGED <<raw1Log, raw25Log, run, first>>
  /\ UNCHANGED <<limVars, retVars, cfgVars, runVars, scanVars, webVars>>

\* faulty variant of Pass25Returns: the new result is put in front of the
\* list
Pass25ReturnsNewestFirst(raw) ==
  /\ ppc = "pass25"
  /\ SameAnswer25(Pass25Calls(pass1_results)[Len(pass25_results) + 1], raw)
  /\ LET calls == Pass25Calls(pass1_results)
         call == calls[Len(pass25_results) + 1]
         p25 == <<raw>> \o pass25_results
     IN /\ callLog' = Append(callLog, [stage |-> "pass25",
                                       room_type |-> call.room_type,
                                       images |-> call.chunk])
        /\ pass25_results' = p25
        /\ IF Len(p25) < Len(calls)
             THEN UNCHANGED <<ppc, result>>
             ELSE /\ result' = <<Assemble(pass1_results, pass2_results, p25)>>
                  /\ ppc' = "returned"
  /\ UNCHANGED <<image_count, pass1_results, pass2_results, failed, out_file>>
  /\ raw25Log' = Append(raw25Log, raw)
  /\ UNCHANGED <<raw1Log, run, first, error>>
  /\ UNCHANGED <<limVars, retVars, cfgVars, runVars, scanVars, webVars>>

\* property_processor.py:60-64 and pass25.py:26-41: the next run_pass25
\* call returns; after the last one the dict is built and returned
Pass25Returns(raw) ==
  /\ ppc = "pass25"
  /\ SameAnswer25(Pass25Calls(pass1_results)[Len(pass25_results) + 1], raw)
  /\ LET calls == Pass25Calls(pass1_results)
         call == calls[Len(pass25_results) + 1]
         p25 == Append(pass25_results, raw)
     IN /\ callLog' = Append(callLog, [stage |-> "pass25",
                                       room_type |-> call.room_type,
                                       images |-> call.chunk])
        /\ pass25_results' = p25
        /\ IF Len(p25) < Len(calls)
             THEN UNCHANGED <<ppc, result>>
             ELSE /\ result' = <<Assemble(pass1_results, pass2_results, p25)>>
                  /\ ppc' = "returned"
  /\ UNCHANGED <<image_count, pass1_results, pass2_results, failed, out_file>>
  /\ raw25Log' = Append(raw25Log, raw)
  /\ UNCHANGED <<raw1Log, run, first, error>>
  /\ UNCHANGED <<limVars, retVars, cfgVars, runVars, scanVars, webVars>>

\* property_processor.py:64: client.pass25 raises
Pass25Raises ==
  /\ ppc = "pass25"
  /\ LET call == Pass25Calls(pass1_results)[Len(pass25_results) + 1]
     IN /\ Unanswered("pass25", call.room_type, call.chunk)
        /\ callLog' = Append(callLog, [stage |-> "pass25",
                                       room_type |-> call.room_type,
                                       images |-> call.chunk])
        /\ failed' = <<[stage |-> "pass25", images |-> call.chunk]>>
  /\ ppc' = "raised"
  /\ UNCHANGED <<image_count, pass1_results, pass2_results, pass25_results,
                 result, out_file>>
  /\ error' = <<RetryError("pass25")>>
  /\ UNCHANGED <<raw1Log, raw25Log, run, first>>
  /\ UNCHANGED <<limVars, retVars, cfgVars, runVars, scanVars, webVars>>

\* run_pipeline.py:53-58: process_one writes the results file, returns True
WriteResults ==
  /\ ppc = "returned"
  /\ out_file' = result
  /\ ppc' = "written"
  /\ UNCHANGED <<image_count, pass1_results, pass2_results, pass25_results,
                 callLog, failed, result>>
  /\ UNCHANGED <<raw1Log, raw25Log, run, first, error>>
  /\ UNCHANGED <<limVars, retVars, cfgVars, runVars, scanVars, webVars>>

\* faulty variant of ProcessOneExcept: what was gathered before the
\* exception is written to the results file
ProcessOneExceptWritesPartial ==
  /\ ppc = "raised"
  /\ out_file' = <<Assemble(pass1_results,
                            [i \in 1..Len(pass1_results) |-> <<>>],
                            pass25_results)>>
  /\ ppc' = "failed"
  /\ UNCHANGED <<image_count, pass1_results, pass2_results, pass25_results,
                 callLog, failed, result>>
  /\ UNCHANGED <<raw1Log, raw25Log, run, first, error>>
  /\ UNCHANGED <<limVars, retVars, cfgVars, runVars, scanVars, webVars>>

\* run_pipeline.py:50-52: the exception that left
\* process_property_from_folder is logged, process_one returns False
ProcessOneExcept ==
  /\ ppc = "raised"
  /\ ppc' = "failed"
  /\ UNCHANGED <<image_count, pass1_results, pass2_results, pass25_results,
                 callLog, failed, result, out_file>>
  /\ UNCHANGED <<raw1Log, raw25Log, run, first, error>>
  /\ UNCHANGED <<limVars, retVars, cfgVars, runVars, scanVars, webVars>>

\* faulty variant of SecondRun: pass25_results outlives the call, as a
\* module-level list would
SecondRunKeepsRooms ==
  /\ ppc = "returned"
  /\ run = 1
  /\ run' = 2
  /\ first' = <<[callLog |-> callLog, raw1Log |-> raw1Log,
                 pass2_results |-> pass2_results,
                 pass25_results |-> pass25_results, result |-> result[1]]>>
  /\ pass1_results' = <<>>
  /\ pass2_results' = <<>>
  /\ callLog' = <<>>
  /\ raw1Log' = <<>>
  /\ raw25Log' = <<>>
  /\ IF image_count = 0
       THEN result' = <<Assemble(<<>>, <<>>, pass25_results)>> /\ ppc' = "returned"
       ELSE result' = <<>> /\ ppc' = "pass1"
  /\ UNCHANGED <<image_count, pass25_results, failed, out_file, error>>
  /\ UNCHANGED <<limVars, retVars, cfgVars, runVars, scanVars, webVars>>

\* property_processor.py:28-36: _process_images is called a second time on
\* the same image list with the same client, after a first call returned
\* its dict; pass1_results, pass2_results, pass25_results are new locals
SecondRun ==
  /\ ppc = "returned"
  /\ run = 1
  /\ run' = 2
  /\ first' = <<[callLog |-> callLog, raw1Log |-> raw1Log,
                 pass2_results |-> pass2_results,
                 pass25_results |-> pass25_results, result |-> result[1]]>>
  /\ pass1_results' = <<>>
  /\ pass2_results' = <<>>
  /\ pass25_results' = <<>>
  /\ callLog' = <<>>
  /\ raw1Log' = <<>>
  /\ raw25Log' = <<>>
  /\ IF image_count = 0
       THEN AfterImageLoop(<<>>, <<>>)
       ELSE result' = <<>> /\ ppc' = "pass1"
  /\ UNCHANGED <<image_count, failed, out_file, error>>
  /\ UNCHANGED <<limVars, retVars, cfgVars, runVars, scanVars, webVars>>

\* property_processor.py:28-36: as SecondRun, with a capability whose
\* pass 1 answers of the second run differ from those of the first in
\* confidence only
SecondRunOtherConfidence ==
  /\ ppc = "returned"
  /\ run = 1
  /\ run' = 3
  /\ first' = <<[callLog |-> callLog, raw1Log |-> raw1Log,
                 pass2_results |-> pass2_results,
                 pass25_results |-> pass25_results, result |-> result[1]]>>
  /\ pass1_results' = <<>>
  /\ pass2_results' = <<>>
  /\ pass25_results' = <<>>
  /\ callLog' = <<>>
  /\ raw1Log' = <<>>
  /\ raw25Log' = <<>>
  /\ IF image_count = 0
       THEN AfterImageLoop(<<>>, <<>>)
       ELSE result' = <<>> /\ ppc' = "pass1"
  /\ UNCHANGED <<image_count, failed, out_file, error>>
  /\ UNCHANGED <<limVars, retVars, cfgVars, runVars, scanVars, webVars>>

\* ------------------------------------ a run with its provider requests
InitRunVars ==
  /\ callsBegun = 0
  /\ requestsSent = 0

\* how a call of with_retry ends: with a value, which the stage function
\* reads, or with an exception
CallEnded == {"stage_returned", "raised", "stage_raised", "sleep_raised"}

\* run_pass1 / run_pass2 / run_pass25 call client.passN (pass1.py:22,
\* pass2.py:19, pass25.py:31), which calls self._call and so with_retry
\* with the numbers of the AppConfig (responses.py:56-61, 152): a new
\* activation of with_retry, with attempt = 0 (retry.py:23)
StageCall ==
  /\ cpc = "ready"
  /\ ppc \in Ops
  /\ rpc \in {"idle"} \cup CallEnded
  /\ Len(callLog) = callsBegun
  /\ callsBegun' = callsBegun + 1
  /\ requestsSent' = requestsSent + Len(sent)
  /\ backend' = client
  /\ op' = ppc
  /\ max_retries' = config[1].max_retries
  /\ backoff_seconds' = config[1].retry_backoff_seconds
  /\ rpc' = "try"
  /\ attempt' = 0
  /\ exc' = NoExc
  /\ sleep_time' = 0
  /\ fnCalls' = 0
  /\ sleeps' = <<>>
  /\ excLog' = <<>>
  /\ warnings' = <<>>
  /\ acquisitions' = 0
  /\ acquired' = FALSE
  /\ sent' = <<>>
  /\ opValue' = "none"
  /\ ret' = NoRet
  /\ UNCHANGED <<limVars, pipVars, cfgVars, scanVars, webVars>>

\* the environments of a run whose start-up succeeds: a provider with its
\* key, the default requests_per_minute, and MAX_RETRIES and
\* RETRY_BACKOFF_SECONDS as load_config accepts them
RunEnvironments ==
  {e \in Environments :
     /\ e.provider = "openai" /\ e.openai_api_key /\ ~e.google_api_key
     /\ e.requests_per_minute = 60
     /\ e.parses}

\* the provider answers a request with a document of the expected shape,
\* with one of another shape, or with an error
RunResponses == {"json_a", "json_other", "api_error"}

\* the stage function whose client call ended returns or raises into
\* _process_images
StageReturns ==
  /\ Len(callLog) < callsBegun
  /\ rpc = "stage_returned"
  /\ \/ \E raw \in RawPass1Samples : Pass1Returns(raw)
     \/ \E features \in RawPass2 : Pass2Returns(features)
     \/ \E raw \in RawPass25 : raw.room_type = "kitchen" /\ Pass25Returns(raw)

StageRaises ==
  /\ Len(callLog) < callsBegun
  /\ rpc \in CallEnded \ {"stage_returned"}
  /\ (Pass1Raises \/ Pass2Raises \/ Pass25Raises)

\* main (run_pipeline.py:117-133) with one property of up to MaxRunImages
\* images: start-up, then process_one with every client call run through
\* with_retry
NextRun ==
  \/ \E e \in RunEnvironments : LoadConfig(e)
  \/ CreateClient
  \/ cpc = "ready" /\ \E n \in 0..MaxRunImages : ProcessOne(n)
  \/ cpc = "ready" /\ LoadRaises
  \/ StageCall
  \/ TryFn
  \/ ExecuteWait
  \/ \E resp \in RunResponses : ExecuteRequest(resp)
  \/ HandleFailure
  \/ BackoffSleepDone
  \/ StageReadsResult
  \/ StageReturns
  \/ StageRaises
  \/ WriteResults
  \/ ProcessOneExcept

\* -------------------------------------------------------- run_scan_mode
\* the case_* folders of CASES_ROOT, named by their rank in sorted order
Cases == 1..NumCases

InitScanVars ==
  /\ spc = "start"
  /\ results = [c \in Cases |-> FALSE]
  /\ to_process = <<>>
  /\ skipped = <<>>
  /\ pos = 1
  /\ processed = 0
  /\ outcomes = <<>>
  /\ reported = <<>>
  /\ fileLog = <<>>
  /\ runsDone = 0

\* run_pipeline.py:66-76: the cases of keep from c on, in sorted order
RECURSIVE CasesFrom(_, _)
CasesFrom(c, keep) ==
  IF c > NumCases THEN <<>>
  ELSE (IF c \in keep THEN <<c>> ELSE <<>>) \o CasesFrom(c + 1, keep)

\* run_pipeline.py:63-64: CASES_ROOT is missing
ScanNoCasesRoot ==
  /\ spc = "start"
  /\ spc' = "exit"
  /\ UNCHANGED <<results, to_process, skipped, pos, processed, outcomes,
                 reported, fileLog, runsDone>>
  /\ UNCHANGED <<limVars, retVars, pipVars, cfgVars, runVars, webVars>>

\* run_pipeline.py:63-83: run_scan_mode up to its processing loop, in a
\* CASES_ROOT with the folders Cases, of which those of present have a
\* results file in OUT_DIR
ScanStart(present) ==
  /\ spc = "start"
  /\ results' = [c \in Cases |-> c \in present]
  /\ to_process' = CasesFrom(1, Cases \ present)
  /\ skipped' = CasesFrom(1, present)
  /\ processed' = 0
  /\ pos' = 1
  /\ spc' = "loop"
  /\ UNCHANGED <<outcomes, reported, fileLog, runsDone>>
  /\ UNCHANGED <<limVars, retVars, pipVars, cfgVars, runVars, webVars>>

\* the loop of run_scan_mode is at a case and process_one runs on it
InProcessOne == spc = "loop" /\ pos <= Len(to_process)

\* faulty variant of ScanNext: a failed case ends the loop, as it ends
\* run_single_mode
ScanNextStopsOnFailure ==
  /\ InProcessOne
  /\ ppc \in {"written", "failed"}
  /\ results' = [results EXCEPT ![to_process[pos]] = (out_file # <<>>)]
  /\ outcomes' = Append(outcomes, ppc)
  /\ fileLog' = IF out_file # <<>>
                  THEN Append(fileLog, [run |-> runsDone + 1,
                                        case |-> to_process[pos]])
                  ELSE fileLog
  /\ processed' = IF ppc = "written" THEN processed + 1 ELSE processed
  /\ pos' = IF ppc = "written" THEN pos + 1 ELSE Len(to_process) + 1
  /\ ppc' = "idle"
  /\ image_count' = 0
  /\ pass1_results' = <<>>
  /\ pass2_results' = <<>>
  /\ pass25_results' = <<>>
  /\ callLog' = <<>>
  /\ failed' = <<>>
  /\ result' = <<>>
  /\ out_file' = <<>>
  /\ raw1Log' = <<>>
  /\ raw25Log' = <<>>
  /\ error' = <<>>
  /\ UNCHANGED <<run, first>>
  /\ UNCHANGED <<spc, to_process, skipped, reported, runsDone>>
  /\ UNCHANGED <<limVars, retVars, cfgVars, runVars, webVars>>

\* run_pipeline.py:84-87: process_one has returned True, the results file
\* of the case written (line 54), or False, no file written (line 52);
\* processed is counted up on True, and the loop goes on to the next
\* case, where process_one starts with fresh locals
ScanNext ==
  /\ InProcessOne
  /\ ppc \in {"written", "failed"}
  /\ results' = [results EXCEPT ![to_process[pos]] = (out_file # <<>>)]
  /\ outcomes' = Append(outcomes, ppc)
  /\ fileLog' = IF out_file # <<>>
                  THEN Append(fileLog, [run |-> runsDone + 1,
                                        case |-> to_process[pos]])
                  ELSE fileLog
  /\ processed' = IF ppc = "written" THEN processed + 1 ELSE processed
  /\ pos' = pos + 1
  /\ ppc' = "idle"
  /\ image_count' = 0
  /\ pass1_results' = <<>>
  /\ pass2_results' = <<>>
  /\ pass25_results' = <<>>
  /\ callLog' = <<>>
  /\ failed' = <<>>
  /\ result' = <<>>
  /\ out_file' = <<>>
  /\ raw1Log' = <<>>
  /\ raw25Log' = <<>>
  /\ error' = <<>>
  /\ UNCHANGED <<run, first>>
  /\ UNCHANGED <<spc, to_process, skipped, reported, runsDone>>
  /\ UNCHANGED <<limVars, retVars, cfgVars, runVars, webVars>>

\* run_pipeline.py:89: the loop is over, the count is printed
ScanReport ==
  /\ spc = "loop"
  /\ pos > Len(to_process)
  /\ reported' = <<processed>>
  /\ spc' = "done"
  /\ UNCHANGED <<results, to_process, skipped, pos, processed, outcomes,
                 fileLog, runsDone>>
  /\ UNCHANGED <<limVars, retVars, pipVars, cfgVars, runVars, webVars>>

\* run_scan_mode over the cases, each of up to MaxScanImages images
NextScan ==
  \/ ScanNoCasesRoot
  \/ \E present \in SUBSET Cases : ScanStart(present)
  \/ InProcessOne /\ \E n \in 0..MaxScanImages : ProcessOne(n)
  \/ InProcessOne /\ LoadRaises
  \/ \E raw \in RawPass1Samples : Pass1Returns(raw)
  \/ Pass1Raises
  \/ \E features \in RawPass2 : Pass2Returns(features)
  \/ Pass2Raises
  \/ \E raw \in RawPass25 : Pass25Returns(raw)
  \/ Pass25Raises
  \/ WriteResults
  \/ ProcessOneExcept
  \/ ScanNext
  \/ ScanReport

\* ------------------------------------- run_single_mode, runs of main
\* faulty variant of SingleStart: the results file is not looked for
SingleStartNoCheck(c, present) ==
  /\ spc = "start"
  /\ results' = [d \in Cases |-> d \in present]
  /\ IF FALSE
       THEN /\ to_process' = <<>>
            /\ skipped' = <<c>>
            /\ spc' = "done"
       ELSE /\ to_process' = <<c>>
            /\ skipped' = <<>>
            /\ spc' = "single"
  /\ pos' = 1
  /\ processed' = 0
  /\ UNCHANGED <<outcomes, reported, fileLog, runsDone>>
  /\ UNCHANGED <<limVars, retVars, pipVars, cfgVars, runVars, webVars>>

\* run_pipeline.py:92-111: run_single_mode on the folder of case c, which
\* exists, up to process_one; with a results file for c in OUT_DIR it
\* returns at line 109 (skipped holds c: found with a results file)
SingleStart(c, present) ==
  /\ spc = "start"
  /\ results' = [d \in Cases |-> d \in present]
  /\ IF c \in present
       THEN /\ to_process' = <<>>
            /\ skipped' = <<c>>
            /\ spc' = "done"
       ELSE /\ to_process' = <<c>>
            /\ skipped' = <<>>
            /\ spc' = "single"
  /\ pos' = 1
  /\ processed' = 0
  /\ UNCHANGED <<outcomes, reported, fileLog, runsDone>>
  /\ UNCHANGED <<limVars, retVars, pipVars, cfgVars, runVars, webVars>>

\* run_pipeline.py:111-114: process_one has returned; False ends the run
\* by sys.exit(1)
SingleNext ==
  /\ spc = "single"
  /\ ppc \in {"written", "failed"}
  /\ results' = [results EXCEPT ![to_process[pos]] = (out_file # <<>>)]
  /\ outcomes' = Append(outcomes, ppc)
  /\ fileLog' = IF out_file # <<>>
                  THEN Append(fileLog, [run |-> runsDone + 1,
                                        case |-> to_process[pos]])
                  ELSE fileLog
  /\ spc' = IF ppc = "written" THEN "done" ELSE "exit"
  /\ ppc' = "idle"
  /\ image_count' = 0
  /\ pass1_results' = <<>>
  /\ pass2_results' = <<>>
  /\ pass25_results' = <<>>
  /\ callLog' = <<>>
  /\ failed' = <<>>
  /\ result' = <<>>
  /\ out_file' = <<>>
  /\ raw1Log' = <<>>
  /\ raw25Log' = <<>>
  /\ error' = <<>>
  /\ UNCHANGED <<run, first>>
  /\ UNCHANGED <<to_process, skipped, pos, processed, reported, runsDone>>
  /\ UNCHANGED <<limVars, retVars, cfgVars, runVars, webVars>>

\* run_pipeline.py:117-133: the script has ended and is started again;
\* OUT_DIR is as the runs before left it
MainAgain ==
  /\ spc \in {"done", "exit"}
  /\ runsDone + 1 < MaxRuns
  /\ runsDone' = runsDone + 1
  /\ spc' = "start"
  /\ to_process' = <<>>
  /\ skipped' = <<>>
  /\ pos' = 1
  /\ processed' = 0
  /\ outcomes' = <<>>
  /\ reported' = <<>>
  /\ UNCHANGED <<results, fileLog>>
  /\ UNCHANGED <<limVars, retVars, pipVars, cfgVars, runVars, webVars>>

\* the results files a run of main finds in OUT_DIR: any in the first
\* run, those the earlier runs found or wrote in a later one
Found(present) == runsDone = 0 \/ present = {c \in Cases : results[c]}

\* process_one runs, called by run_scan_mode or by run_single_mode
Processing == InProcessOne \/ spc = "single"

\* up to MaxRuns runs of main, each in scan mode or in single mode, over
\* the same CASES_ROOT and OUT_DIR
NextMain ==
  \/ /\ spc = "start"
     /\ \E present \in SUBSET Cases : Found(present) /\ ScanStart(present)
  \/ /\ spc = "start"
     /\ \E c \in Cases, present \in SUBSET Cases :
          Found(present) /\ SingleStart(c, present)
  \/ Processing /\ \E n \in 0..MaxScanImages : ProcessOne(n)
  \/ Processing /\ LoadRaises
  \/ \E raw \in RawPass1Samples : Pass1Returns(raw)
  \/ Pass1Raises
  \/ \E features \in RawPass2 : Pass2Returns(features)
  \/ Pass2Raises
  \/ \E raw \in RawPass25 : Pass25Returns(raw)
  \/ Pass25Raises
  \/ WriteResults
  \/ ProcessOneExcept
  \/ ScanNext
  \/ ScanReport
  \/ SingleNext
  \/ MainAgain

\* ------------------------------------------- web/backend/app.py
Handlers == 1..NumHandlers

\* app.py:114
ValidClassifications == {"correct", "fp", "fn"}

NoEntry ==
  [id |-> 0, property_id |-> "none", filename |-> "none",
   has_verdict |-> FALSE, classification |-> "none"]

IdleHandler == [pc |-> "idle", entry |-> NoEntry, feedback |-> <<>>, status |-> 0]

\* the bodies of POST /api/feedback: json is FALSE for a body that is no
\* JSON or an empty one; "none" stands for a missing field; has_verdict
\* says that feature_id and verdict are both there; "maybe" is a
\* classification outside the valid ones
PostBodies ==
  [json : {TRUE}, property_id : {"p1"}, filename : {"a.jpg", "b.jpg"},
   has_verdict : {FALSE}, classification : ValidClassifications]
  \cup
  [json : {TRUE}, property_id : {"p1"}, filename : {"a.jpg"},
   has_verdict : {TRUE}, classification : {"none", "fp", "maybe"}]
  \cup
  [json : BOOLEAN, property_id : {"none", "p1"}, filename : {"none", "a.jpg"},
   has_verdict : {FALSE}, classification : {"none", "maybe"}]

\* app.py:89-96, 103-107, 113-116: the request is answered with status 400
Rejected(body) ==
  \/ ~body.json
  \/ body.property_id = "none"
  \/ body.filename = "none"
  \/ ~body.has_verdict /\ body.classification = "none"
  \/ body.classification # "none" /\ body.classification \notin ValidClassifications

\* app.py:98-117: the entry built from an accepted body; id, the rank of
\* the request, tells equal entries of different requests apart
EntryOf(body, id) ==
  [id |-> id, property_id |-> body.property_id, filename |-> body.filename,
   has_verdict |-> body.has_verdict, classification |-> body.classification]

\* app.py:120-127 and 170-175: the list read from out/feedback.json, empty
\* when the file is absent or cannot be decoded
LoadFeedback(file) == IF file.kind = "list" THEN file.entries ELSE <<>>

\* the case images that exist under CASES_ROOT (app.py:151-153)
SourceExists(property_id, filename) == filename = "a.jpg"

InitWebVars ==
  /\ feedback_json = [kind |-> "absent", entries |-> <<>>]
  /\ ground_truth = {}
  /\ hnd = [h \in Handlers |-> IdleHandler]
  /\ posts = 0
  /\ acked = <<>>
  /\ stats = <<>>

\* faulty variant of PostFeedback: the entry is stored before the
\* classification is validated
PostFeedbackStoresFirst(h, body) ==
  /\ hnd[h].pc = "idle"
  /\ posts' = posts + 1
  /\ IF Rejected(body)
       THEN /\ hnd' = [hnd EXCEPT ![h] = [IdleHandler EXCEPT !.pc = "done",
                                                            !.status = 400]]
            /\ feedback_json' =
                 IF body.json /\ body.property_id # "none" /\ body.filename # "none"
                   THEN [kind |-> "list",
                         entries |-> Append(LoadFeedback(feedback_json),
                                            EntryOf(body, posts + 1))]
                   ELSE feedback_json
       ELSE /\ hnd' = [hnd EXCEPT ![h] = [IdleHandler EXCEPT
                                            !.pc = "load",
                                            !.entry = EntryOf(body, posts + 1)]]
            /\ UNCHANGED feedback_json
  /\ UNCHANGED <<ground_truth, acked, stats>>
  /\ UNCHANGED <<limVars, retVars, pipVars, cfgVars, runVars, scanVars>>

\* app.py:89-117: post_feedback up to the reading of the stored list; a
\* rejected request is answered with 400
PostFeedback(h, body) ==
  /\ hnd[h].pc = "idle"
  /\ posts' = posts + 1
  /\ hnd' = [hnd EXCEPT ![h] =
               IF Rejected(body)
                 THEN [IdleHandler EXCEPT !.pc = "done", !.status = 400]
                 ELSE [IdleHandler EXCEPT !.pc = "load",
                                          !.entry = EntryOf(body, posts + 1)]]
  /\ UNCHANGED <<feedback_json, ground_truth, acked, stats>>
  /\ UNCHANGED <<limVars, retVars, pipVars, cfgVars, runVars, scanVars>>

\* app.py:119-128: the stored list is read and the entry appended to the
\* copy in memory
PostLoad(h) ==
  /\ hnd[h].pc = "load"
  /\ hnd' = [hnd EXCEPT ![h].pc = "write",
                        ![h].feedback = Append(LoadFeedback(feedback_json),
                                               hnd[h].entry)]
  /\ UNCHANGED <<feedback_json, ground_truth, posts, acked, stats>>
  /\ UNCHANGED <<limVars, retVars, pipVars, cfgVars, runVars, scanVars>>

\* app.py:129-131: the list in memory is written over out/feedback.json
PostWrite(h) ==
  /\ hnd[h].pc = "write"
  /\ feedback_json' = [kind |-> "list", entries |-> hnd[h].feedback]
  /\ hnd' = [hnd EXCEPT ![h].pc = "copy"]
  /\ UNCHANGED <<ground_truth, posts, acked, stats>>
  /\ UNCHANGED <<limVars, retVars, pipVars, cfgVars, runVars, scanVars>>

\* app.py:129-133: open or json.dump raises OSError, the request is
\* answered with 500; the file is as it was (open failed) or, truncated
\* by open, holds no complete document
PostWriteFails(h, truncated) ==
  /\ hnd[h].pc = "write"
  /\ feedback_json' = IF truncated THEN [kind |-> "corrupt", entries |-> <<>>]
                                   ELSE feedback_json
  /\ hnd' = [hnd EXCEPT ![h].pc = "done", ![h].status = 500]
  /\ UNCHANGED <<ground_truth, posts, acked, stats>>
  /\ UNCHANGED <<limVars, retVars, pipVars, cfgVars, runVars, scanVars>>

\* app.py:135-139 and 142-163: an image classified as correct is copied to
\* the ground-truth folder if its source exists and the copy does not
\* fail; the request is answered with 201
PostRespond(h, copy_ok) ==
  /\ hnd[h].pc = "copy"
  /\ ground_truth' =
       IF /\ hnd[h].entry.classification = "correct"
          /\ SourceExists(hnd[h].entry.property_id, hnd[h].entry.filename)
          /\ copy_ok
         THEN ground_truth \cup {<<hnd[h].entry.property_id, hnd[h].entry.filename>>}
         ELSE ground_truth
  /\ acked' = Append(acked, hnd[h].entry)
  /\ hnd' = [hnd EXCEPT ![h].pc = "done", ![h].status = 201]
  /\ UNCHANGED <<feedback_json, posts, stats>>
  /\ UNCHANGED <<limVars, retVars, pipVars, cfgVars, runVars, scanVars>>

\* the response is sent, the handler is free for another request
HandlerDone(h) ==
  /\ hnd[h].pc = "done"
  /\ hnd' = [hnd EXCEPT ![h] = IdleHandler]
  /\ UNCHANGED <<feedback_json, ground_truth, posts, acked, stats>>
  /\ UNCHANGED <<limVars, retVars, pipVars, cfgVars, runVars, scanVars>>

\* the empty dict
NoLatest == [p \in {} |-> "none"]

\* faulty variant of LatestStep: a classification already there is kept
LatestStepFirstWins(latest, entry) ==
  LET key == <<entry.property_id, entry.filename>>
  IN IF entry.classification # "none" /\ key \notin DOMAIN latest
       THEN [p \in DOMAIN latest \cup {key} |->
               IF p = key THEN entry.classification ELSE latest[p]]
       ELSE latest

\* app.py:180-182: one turn of the loop over the entries
LatestStep(latest, entry) ==
  LET key == <<entry.property_id, entry.filename>>
  IN IF entry.classification # "none"
       THEN [p \in DOMAIN latest \cup {key} |->
               IF p = key THEN entry.classification ELSE latest[p]]
       ELSE latest

\* app.py:178-182
RECURSIVE LatestUpTo(_, _)
LatestUpTo(feedback, k) ==
  IF k = 0 THEN NoLatest
  ELSE LatestStep(LatestUpTo(feedback, k - 1), feedback[k])

\* app.py:184-198 (precision and recall, computed from the three counts,
\* left out)
StatsOf(feedback) ==
  LET latest == LatestUpTo(feedback, Len(feedback))
      Count(c) == Cardinality({p \in DOMAIN latest : latest[p] = c})
  IN [correct |-> Count("correct"),
      fp |-> Count("fp"),
      fn |-> Count("fn"),
      total_classified |-> Count("correct") + Count("fp") + Count("fn")]

\* app.py:166-198: get_stats; read is the list it loaded
GetStats ==
  /\ stats' = <<[read |-> LoadFeedback(feedback_json),
                 json |-> StatsOf(LoadFeedback(feedback_json))]>>
  /\ UNCHANGED <<feedback_json, ground_truth, hnd, posts, acked>>
  /\ UNCHANGED <<limVars, retVars, pipVars, cfgVars, runVars, scanVars>>

\* the server with NumHandlers threads and up to MaxPosts feedback posts
NextFeedback ==
  \/ /\ posts < MaxPosts
     /\ \E h \in Handlers, body \in PostBodies : PostFeedback(h, body)
  \/ \E h \in Handlers : PostLoad(h)
  \/ \E h \in Handlers : PostWrite(h)
  \/ \E h \in Handlers, truncated \in BOOLEAN : PostWriteFails(h, truncated)
  \/ \E h \in Handlers, copy_ok \in BOOLEAN : PostRespond(h, copy_ok)
  \/ \E h \in Handlers : HandlerDone(h)

\* up to MaxStatsPosts feedback posts handled one after the other, and
\* GET /api/stats between them
NextStats ==
  \/ /\ posts < MaxStatsPosts
     /\ \E body \in PostBodies : PostFeedback(1, body)
  \/ PostLoad(1)
  \/ PostWrite(1)
  \/ \E truncated \in BOOLEAN : PostWriteFails(1, truncated)
  \/ \E copy_ok \in BOOLEAN : PostRespond(1, copy_ok)
  \/ HandlerDone(1)
  \/ GetStats

\* two runs of _process_images over one folder of up to MaxRerunImages
\* images that are gated alike but for the confidence
NextConfidence ==
  \/ \E n \in 0..MaxRerunImages : ProcessOne(n)
  \/ \E raw \in RawPass1 : Pass1Returns(raw)
  \/ Pass1Raises
  \/ \E features \in RawPass2 : Pass2Returns(features)
  \/ Pass2Raises
  \/ \E raw \in RawPass25 : Pass25Returns(raw)
  \/ Pass25Raises
  \/ SecondRunOtherConfidence

\* two runs of _process_images over one folder of up to MaxRerunImages
\* images
NextRerun ==
  \/ \E n \in 0..MaxRerunImages : ProcessOne(n)
  \/ \E raw \in RawPass1 : Pass1Returns(raw)
  \/ Pass1Raises
  \/ \E features \in RawPass2 : Pass2Returns(features)
  \/ Pass2Raises
  \/ \E raw \in RawPass25 : Pass25Returns(raw)
  \/ Pass25Raises
  \/ SecondRun

NextPipeline ==
  \/ \E n \in 0..MaxImages : ProcessOne(n)
  \/ LoadRaises
  \/ \E raw \in RawPass1 : Pass1Returns(raw)
  \/ Pass1Raises
  \/ \E features \in RawPass2 : Pass2Returns(features)
  \/ Pass2Raises
  \/ \E raw \in RawPass25 : Pass25Returns(raw)
  \/ Pass25Raises
  \/ WriteResults
  \/ ProcessOneExcept

\* the grouping and consolidation part of a run: on folders of up to
\* MaxGated images gated in any way, and on folders of up to MaxBucket
\* images all gated alike
NextConsolidation ==
  \/ /\ ppc = "idle"
     /\ \E n \in 0..MaxGated : \E raws \in [1..n -> RawPass1Samples] : ImageLoop(raws)
  \/ /\ ppc = "idle"
     /\ \E n \in 0..MaxBucket : \E raw \in RawPass1Samples :
          ImageLoop([i \in 1..n |-> raw])
  \/ \E raw \in RawPass25 : Pass25Returns(raw)
  \/ Pass25Raises

\* concurrent callers of wait() on one RateLimiter
NextLimiter ==
  \/ \E rpm \in RpmValues : RateLimiterInit(rpm)
  \/ Tick
  \/ \E t \in Threads : CallWait(t)
  \/ \E t \in Threads : WaitLock(t)
  \/ \E t \in Threads : WaitRead(t)
  \/ \E t \in Threads : WaitWrite(t)

\* concurrent callers of wait() on one RateLimiter, with the time that
\* passes while one of them sleeps
NextWaiters ==
  \/ \E rpm \in RpmValues : RateLimiterInit(rpm)
  \/ Tick
  \/ \E t \in Threads : CallWait(t)
  \/ \E t \in Threads : WaitLock(t)
  \/ \E t \in Threads : WaitRead(t)
  \/ \E t \in Threads : SleepElapses(t)
  \/ \E t \in Threads : WaitWrite(t)

\* every thread runs on, time passes for a sleeper, and the lock is fair: a
\* thread that finds it free again and again acquires it
FairWaiters ==
  \A t \in Threads :
    /\ SF_vars(WaitLock(t))
    /\ WF_vars(WaitRead(t))
    /\ WF_vars(SleepElapses(t))
    /\ WF_vars(WaitWrite(t))

\* the requests that reach the provider: those of the backends' execute()
\* and those of scripts/openai_pass1.run_pass1
NextProvider ==
  \/ \E rpm \in RpmValues : RateLimiterInit(rpm)
  \/ Tick
  \/ \E t \in Threads : CallExecute(t)
  \/ \E t \in Threads : WaitLock(t)
  \/ \E t \in Threads : WaitRead(t)
  \/ \E t \in Threads : WaitWrite(t)
  \/ \E t \in Threads : SendRequest(t)
  \/ ScriptRunPass1

Init ==
  /\ InitLimiterVars
  /\ InitRetryVars
  /\ InitPipelineVars
  /\ InitConfigVars
  /\ InitRunVars
  /\ InitScanVars
  /\ InitWebVars

SpecLimiter == Init /\ [][NextLimiter]_vars

SpecProvider == Init /\ [][NextProvider]_vars

SpecRetry == Init /\ [][NextRetry]_vars

SpecPipeline == Init /\ [][NextPipeline]_vars

SpecConsolidation == Init /\ [][NextConsolidation]_vars

SpecRerun == Init /\ [][NextRerun]_vars

SpecConfig == Init /\ [][NextConfig]_vars

SpecConfidence == Init /\ [][NextConfidence]_vars

SpecRun == Init /\ [][NextRun]_vars

SpecScan == Init /\ [][NextScan]_vars

SpecMain == Init /\ [][NextMain]_vars

SpecFeedback == Init /\ [][NextFeedback]_vars

SpecStats == Init /\ [][NextStats]_vars

SpecWaiters == Init /\ [][NextWaiters]_vars /\ FairWaiters

\* ------------------------------------------------- claims on RateLimiter

\* C2: the values successively recorded in _last_time by completed wait()
\* calls, whichever callers made them, are at least 60/requests_per_minute
\* seconds apart.
AcquisitionsSpaced ==
  \A i \in 1..(Len(acqTimes) - 1) :
    acqTimes[i + 1] - acqTimes[i] >= min_interval

\* two acquisitions were recorded exactly one interval apart, and a further
\* call is sleeping inside wait() until the interval has passed again
AcquisitionsSpacedWitness ==
  /\ Len(acqTimes) >= 2
  /\ acqTimes[2] - acqTimes[1] = min_interval
  /\ \E t \in Threads : th[t].pc = "write" /\ clock < th[t].wakeAt

\* C3: read of _last_time, sleep and write of _last_time are one critical
\* section: at most one caller is inside it, that caller holds the lock, and
\* the timestamp it computed its sleep from is still the stored one when it
\* writes its own.
CriticalSection ==
  /\ Cardinality({t \in Threads : th[t].pc \in {"read", "write"}}) <= 1
  /\ \A t \in Threads :
       th[t].pc \in {"read", "write"} => lock = t
  /\ \A t \in Threads :
       th[t].pc = "write" => th[t].seen = last_time

\* a caller sleeps inside the critical section after an earlier acquisition
\* while another caller has called wait() and is kept out
CriticalSectionWitness ==
  \E t, u \in Threads :
    /\ t # u
    /\ th[t].pc = "write" /\ clock < th[t].wakeAt
    /\ th[u].pc = "wait"
    /\ Len(acqTimes) >= 1

\* C10: RateLimiter(requests_per_minute) raises ValueError and leaves no
\* usable limiter when requests_per_minute <= 0, and succeeds otherwise.
ConstructionOutcome ==
  /\ (ctorArgs = <<>>) <=> (limiter = "unconstructed")
  /\ ctorArgs # <<>> =>
       /\ ctorArgs[1] <= 0 => limiter = "ValueError"
       /\ ctorArgs[1] > 0 => limiter = "ready" /\ min_interval * ctorArgs[1] = 60
  /\ limiter # "ready" =>
       /\ acqTimes = <<>>
       /\ \A t \in Threads : th[t].pc = "idle"

\* construction was attempted with a negative value and was refused
ConstructionOutcomeWitness ==
  /\ ctorArgs # <<>>
  /\ ctorArgs[1] < 0
  /\ limiter = "ValueError"

\* C9: every request that reaches the provider passed the RateLimiter, and
\* any two consecutive provider requests are at least
\* 60/requests_per_minute seconds apart.
NoRequestBypassesLimiter ==
  /\ \A i \in 1..Len(reqLog) : reqLog[i].limited
  /\ \A i \in 1..(Len(reqLog) - 1) :
       reqLog[i + 1].at - reqLog[i].at >= min_interval

\* C28: with several callers on one RateLimiter, every call of wait()
\* returns: the lock is held by the one caller between lines 19 and 24
\* and by nobody else, it is free again once that caller has returned, a
\* caller sleeps at most min_interval = 60 / requests_per_minute, and under
\* a fair lock a caller that has called wait() gets back to its caller.
EveryWaitReturns ==
  /\ [](\A t \in Threads :
         /\ th[t].pc \in {"read", "write"} <=> lock = t
         /\ th[t].pc = "write" => th[t].wakeAt <= clock + min_interval)
  /\ \A t \in Threads :
       (th[t].pc \in {"wait", "read", "write"}) ~> (th[t].pc = "idle")

\* two callers are blocked on the lock while a third one, who holds it,
\* sleeps
EveryWaitReturnsWitness ==
  \E t \in Threads :
    /\ lock = t
    /\ th[t].pc = "write"
    /\ clock < th[t].wakeAt
    /\ \A u \in Threads \ {t} : th[u].pc = "wait"

\* ---------------------------------------- claims on with_retry and _call

\* C4: when the operation fails k <= max_retries times and then succeeds,
\* with_retry returns the operation's value after exactly k+1 invocations
\* and exactly k sleeps of backoff_seconds * 2^0, ..., backoff_seconds *
\* 2^(k-1), in this order; it never gives up after max_retries or fewer
\* failures.
RetryReturnsAfterFailures ==
  /\ rpc = "returned" =>
       /\ ret = [kind |-> "value", value |-> opValue, cause |-> NoExc]
       /\ Len(excLog) <= max_retries
       /\ fnCalls = Len(excLog) + 1
       /\ Len(sleeps) = Len(excLog)
       /\ \A i \in 1..Len(sleeps) : sleeps[i] = backoff_seconds * (2 ^ (i - 1))
  /\ rpc = "raised" => Len(excLog) > max_retries

\* the operation failed max_retries = 3 times and then succeeded, with the
\* default backoff of 1.5 s (3 half seconds)
RetryReturnsAfterFailuresWitness ==
  /\ rpc = "returned"
  /\ max_retries = 3
  /\ Len(excLog) = 3
  /\ backoff_seconds = 3
  /\ sleeps = <<3, 6, 12>>

\* C5: when every invocation fails, with_retry invokes the operation
\* max_retries + 1 times, sleeps max_retries times, never sleeps after the
\* last failure, and raises RetryError whose cause is the last exception.
RetryExhausted ==
  /\ rpc = "raised" =>
       /\ fnCalls = max_retries + 1
       /\ Len(excLog) = max_retries + 1
       /\ Len(sleeps) = max_retries
       /\ ret = [kind |-> "RetryError", value |-> "none",
                 cause |-> excLog[Len(excLog)]]
  /\ Len(sleeps) <= max_retries
  /\ Len(excLog) = max_retries + 1 => rpc \in {"except", "raised"}

\* three failures with max_retries = 2, the last exception differing from
\* the first one
RetryExhaustedWitness ==
  /\ rpc = "raised"
  /\ max_retries = 2
  /\ Len(excLog) = 3
  /\ excLog[3] # excLog[1]
  /\ ret.cause = excLog[3]

\* C8: every attempt of a backend call, the first and the retries alike,
\* acquires the rate limiter before its request is sent: each request was
\* preceded by a wait() in its own attempt, and a call of a attempts made
\* a acquisitions and a requests.
EveryAttemptAcquires ==
  /\ \A i \in 1..Len(sent) : sent[i].acquired /\ sent[i].attempt = i
  /\ rpc = "request" => acquired /\ acquisitions = fnCalls
  /\ rpc \in {"except", "sleep", "returned", "raised"} =>
       /\ acquisitions = fnCalls
       /\ Len(sent) = fnCalls

\* a Gemini call that succeeded on its third attempt
EveryAttemptAcquiresWitness ==
  /\ rpc = "returned"
  /\ backend = "google"
  /\ fnCalls = 3
  /\ acquisitions = 3
  /\ Len(sent) = 3

\* C17: a response that is empty or cannot be parsed into the expected
\* shape counts as a failed attempt of the inference call and is retried
\* like a transport error: each such response is an exception caught by
\* with_retry, the call fails only after max_retries + 1 attempts, and it
\* succeeds when the last response is a valid one.
SchemaFailureRetried ==
  /\ \A i \in 1..Len(sent) :
       sent[i].resp \in {"empty", "malformed", "json_other"} => Len(excLog) >= i
  /\ rpc \in {"raised", "stage_raised"} => Len(sent) = max_retries + 1
  /\ rpc \in {"returned", "stage_returned"} =>
       sent[Len(sent)].resp \in {"json_a", "json_b"}

\* C25: in with_retry each failed attempt is reported to the logger before
\* the backoff sleep that follows it, and the number of reported failures
\* equals the number of failed attempts of the call.
EveryFailureReported ==
  /\ Len(sleeps) <= Len(warnings)
  /\ \A i \in 1..Len(warnings) :
       /\ warnings[i].exc = excLog[i]
       /\ i <= Len(sleeps) => warnings[i].sleep = sleeps[i]
  /\ rpc \in {"sleep", "try", "returned", "raised"} =>
       Len(warnings) = Len(excLog)

\* ------------------------------------------------ claims on the pipeline

\* C1: run_pass2 is called for an image only if the image's pass1 result
\* is actionable with a room_type in the allow-list.
FeatureDetectionOnlyForGated ==
  \A k \in 1..Len(callLog) :
    callLog[k].stage = "pass2" =>
      LET i == callLog[k].images[1]
      IN /\ pass1_results[i].actionable
         /\ pass1_results[i].room_type \in ALLOWED_ROOMS

NoPartialResult ==
  /\ failed # <<>> =>
       /\ result = <<>>
       /\ out_file = <<>>
       /\ ppc \in {"raised", "failed"}
  /\ out_file # <<>> =>
       /\ failed = <<>>
       /\ out_file = result
       /\ Len(result[1].images) = image_count

\* the consolidation call raised after all images were gated and detected;
\* process_one returned False
NoPartialResultWitness ==
  /\ ppc = "failed"
  /\ failed # <<>>
  /\ failed[1].stage = "pass25"
  /\ Len(pass2_results) = image_count
  /\ out_file = <<>>

\* C11: run_pass1 returns actionable = FALSE whenever the room_type the
\* model returned is outside the allow-list, whatever the model's own flag;
\* for a room_type of the allow-list the model's flag is returned unchanged;
\* the room_type is returned unchanged in both cases.
GatingPolicy ==
  /\ Len(raw1Log) = Len(pass1_results)
  /\ \A i \in 1..Len(raw1Log) :
       /\ pass1_results[i].room_type = raw1Log[i].room_type
       /\ raw1Log[i].room_type \notin {"kitchen", "bathroom"} =>
            pass1_results[i].actionable = FALSE
       /\ raw1Log[i].room_type \in {"kitchen", "bathroom"} =>
            pass1_results[i].actionable = raw1Log[i].actionable

\* the model called an exterior image actionable and run_pass1 returned it
\* not actionable; a kitchen image kept the model's TRUE and a bathroom
\* image the model's FALSE
GatingPolicyWitness ==
  /\ Len(pass1_results) = 3
  /\ raw1Log[1].room_type = "exterior" /\ raw1Log[1].actionable
  /\ ~pass1_results[1].actionable
  /\ raw1Log[2].room_type = "kitchen" /\ pass1_results[2].actionable
  /\ raw1Log[3].room_type = "bathroom" /\ ~raw1Log[3].actionable
  /\ ~pass1_results[3].actionable
  /\ pass1_results[3].room_type = "bathroom"

\* C12: after grouping, each room-type bucket holds exactly the images
\* whose Pass1Result is actionable with that room type, in image
\* enumeration order; buckets are ordered by the first appearance of their
\* room type; a non-actionable image is in no bucket.
GroupingExact ==
  Len(pass1_results) = image_count =>
    LET g == RoomGroups(pass1_results)
        ActionableOf(r) ==
          SelectSeq([i \in 1..image_count |-> i],
                    LAMBDA i : pass1_results[i].actionable
                               /\ pass1_results[i].room_type = r)
    IN /\ \A j \in 1..Len(g) :
            /\ g[j].items # <<>>
            /\ g[j].items = ActionableOf(g[j].room_type)
       /\ \A j, k \in 1..Len(g) :
            j < k => /\ g[j].room_type # g[k].room_type
                     /\ g[j].items[1] < g[k].items[1]
       /\ \A i \in 1..image_count :
            IF pass1_results[i].actionable
              THEN \E j \in 1..Len(g) : g[j].room_type = pass1_results[i].room_type
              ELSE \A j \in 1..Len(g) :
                     \A m \in 1..Len(g[j].items) : g[j].items[m] # i

\* actionable room types [kitchen, kitchen, bathroom, kitchen] followed by
\* an image gated as not actionable: the kitchen bucket holds images 1, 2,
\* 4 in this order and comes before the bathroom bucket
GroupingExactWitness ==
  /\ image_count = 5
  /\ Len(pass1_results) = 5
  /\ ~pass1_results[5].actionable
  /\ RoomGroups(pass1_results) =
       <<[room_type |-> "kitchen", items |-> <<1, 2, 4>>],
         [room_type |-> "bathroom", items |-> <<3>>]>>
  /\ ppc = "returned"

\* C13: whatever the model answers, no run_pass25 call is made and no
\* consolidation entry is appended for a bucket whose room type is outside
\* the allow-list {kitchen, bathroom}, even when the model gave that room
\* type to two or more images and called them actionable: every run_pass25
\* call is for an allowed room type and for images the model gave that room
\* type, and every entry of pass25_results and of "rooms" is the answer to
\* one of these calls.
NoConsolidationOutsideAllowList ==
  LET pass25Calls == SelectSeq(callLog, LAMBDA c : c.stage = "pass25")
  IN /\ \A k \in 1..Len(pass25Calls) :
          /\ pass25Calls[k].room_type \in {"kitchen", "bathroom"}
          /\ \A m \in 1..Len(pass25Calls[k].images) :
               raw1Log[pass25Calls[k].images[m]].room_type = pass25Calls[k].room_type
     /\ Len(pass25_results) <= Len(pass25Calls)
     /\ failed = <<>> => Len(pass25_results) = Len(pass25Calls)
     /\ result # <<>> => result[1].rooms = pass25_results

\* the model called two exterior images and two kitchen images actionable:
\* the run made one run_pass25 call, for the kitchen images, and returned
\* one consolidation entry
NoConsolidationOutsideAllowListWitness ==
  /\ ppc = "returned"
  /\ image_count = 4
  /\ \A i \in 1..4 : raw1Log[i].actionable
  /\ raw1Log[1].room_type = "exterior" /\ raw1Log[2].room_type = "exterior"
  /\ raw1Log[3].room_type = "kitchen" /\ raw1Log[4].room_type = "kitchen"
  /\ SelectSeq(callLog, LAMBDA c : c.stage = "pass25") =
       <<[stage |-> "pass25", room_type |-> "kitchen", images |-> <<3, 4>>]>>
  /\ Len(result[1].rooms) = 1

\* C14: a bucket of n >= 2 actionable images is split into ceil(n/4)
\* chunks that are consecutive slices of the bucket in its order; every
\* chunk but the last has exactly 4 images; the chunks put end to end are
\* the bucket; one run_pass25 call is made per chunk, in this order.
ChunkingExact ==
  LET g == RoomGroups(pass1_results)
      CallsFor(r) ==
        SelectSeq(callLog, LAMBDA c : c.stage = "pass25" /\ c.room_type = r)
  IN Len(pass1_results) = image_count =>
       \A j \in 1..Len(g) :
         LET items == g[j].items
             n == Len(items)
             calls == CallsFor(g[j].room_type)
         IN n >= 2 =>
              /\ \A c \in 1..Len(calls) :
                   /\ 4 * (c - 1) < n
                   /\ Len(calls[c].images) = IF 4 * c <= n THEN 4 ELSE n - 4 * (c - 1)
                   /\ \A m \in 1..Len(calls[c].images) :
                        calls[c].images[m] = items[4 * (c - 1) + m]
              /\ ppc = "returned" =>
                   /\ 4 * (Len(calls) - 1) < n
                   /\ n <= 4 * Len(calls)

\* a bucket of 9 kitchen images was consolidated by three calls, on images
\* 1-4, 5-8 and 9
ChunkingExactWitness ==
  /\ ppc = "returned"
  /\ RoomGroups(pass1_results) =
       <<[room_type |-> "kitchen", items |-> <<1, 2, 3, 4, 5, 6, 7, 8, 9>>]>>
  /\ SelectSeq(callLog, LAMBDA c : c.stage = "pass25") =
       <<[stage |-> "pass25", room_type |-> "kitchen", images |-> <<1, 2, 3, 4>>],
         [stage |-> "pass25", room_type |-> "kitchen", images |-> <<5, 6, 7, 8>>],
         [stage |-> "pass25", room_type |-> "kitchen", images |-> <<9>>]>>
  /\ Len(result[1].rooms) = 3

\* C21 as stated: every run_pass25 call of a run is given at least 2 and at
\* most 4 images, all gated to the call's room type; no call is made on a
\* single image.
ConsolidationCallSizes ==
  \A k \in 1..Len(callLog) :
    callLog[k].stage = "pass25" =>
      /\ Len(callLog[k].images) >= 2
      /\ Len(callLog[k].images) <= 4
      /\ \A m \in 1..Len(callLog[k].images) :
           pass1_results[callLog[k].images[m]].room_type = callLog[k].room_type

\* C21 as amended: every run_pass25 call of a run is given at least 1 and
\* at most 4 images, all gated as actionable to the call's room type and
\* taken from a bucket of at least 2 images; a call on a single image is
\* the call on the last chunk of a bucket of 4m + 1 images.
ConsolidationCallSizesAmended ==
  \A k \in 1..Len(callLog) :
    callLog[k].stage = "pass25" =>
      LET imgs == callLog[k].images
          bucket == {i \in 1..Len(pass1_results) :
                       /\ pass1_results[i].actionable
                       /\ pass1_results[i].room_type = callLog[k].room_type}
      IN /\ Len(imgs) >= 1
         /\ Len(imgs) <= 4
         /\ \A m \in 1..Len(imgs) : imgs[m] \in bucket
         /\ Cardinality(bucket) >= 2
         /\ Len(imgs) = 1 =>
              /\ Cardinality(bucket) % 4 = 1
              /\ \A i \in bucket : i <= imgs[1]

\* a bucket of 5 bathroom images was consolidated by a call on images 1-4
\* and a call on image 5 alone
ConsolidationCallSizesAmendedWitness ==
  /\ ppc = "returned"
  /\ image_count = 5
  /\ SelectSeq(callLog, LAMBDA c : c.stage = "pass25") =
       <<[stage |-> "pass25", room_type |-> "bathroom", images |-> <<1, 2, 3, 4>>],
         [stage |-> "pass25", room_type |-> "bathroom", images |-> <<5>>]>>
  /\ Len(result[1].rooms) = 2

\* C15: a bucket with fewer than 2 actionable images, in particular a
\* single image of an allowed room type, gets no run_pass25 call and no
\* consolidation entry, and skipping it is no error: a run whose buckets
\* are all that small returns its result as soon as the image loop is
\* over, and a run fails in consolidation only on a call for a larger
\* bucket.
SmallBucketSkipped ==
  LET g == RoomGroups(pass1_results)
      pass25Calls == SelectSeq(callLog, LAMBDA c : c.stage = "pass25")
      Small(j) == Len(g[j].items) < 2
      LoopOver == /\ ppc # "idle"
                  /\ Len(pass2_results) = image_count
                  /\ ~(failed # <<>> /\ failed[1].stage = "load")
  IN LoopOver =>
       /\ \A j \in 1..Len(g) :
            Small(j) =>
              \A k \in 1..Len(pass25Calls) :
                pass25Calls[k].room_type # g[j].room_type
       /\ result # <<>> => Len(result[1].rooms) = Len(pass25Calls)
       /\ (\A j \in 1..Len(g) : Small(j)) =>
            /\ ppc \in {"returned", "written"}
            /\ result # <<>>
            /\ result[1].rooms = <<>>
            /\ failed = <<>>
       /\ failed # <<>> =>
            \E j \in 1..Len(g) :
              ~Small(j) /\ g[j].room_type = callLog[Len(callLog)].room_type

\* one actionable kitchen image and two actionable bathroom images: the
\* run returned a result with the single entry of the bathroom call
SmallBucketSkippedWitness ==
  /\ ppc = "returned"
  /\ RoomGroups(pass1_results) =
       <<[room_type |-> "kitchen", items |-> <<1>>],
         [room_type |-> "bathroom", items |-> <<2, 3>>]>>
  /\ SelectSeq(callLog, LAMBDA c : c.stage = "pass25") =
       <<[stage |-> "pass25", room_type |-> "bathroom", images |-> <<2, 3>>]>>
  /\ Len(result[1].rooms) = 1

\* C16: every image that fails the actionable-and-allowed filter has an
\* empty feature list in the per-image output of the run: no feature is
\* recorded for an image whose Pass1Result is not actionable or whose
\* room_type is outside the allow-list.
FilteredImagesHaveNoFeatures ==
  /\ \A i \in 1..Len(pass2_results) :
       ~(pass1_results[i].actionable
         /\ pass1_results[i].room_type \in {"kitchen", "bathroom"})
         => pass2_results[i] = <<>>
  /\ result # <<>> =>
       \A i \in 1..Len(result[1].images) :
         ~(result[1].images[i].pass1.actionable
           /\ result[1].images[i].pass1.room_type \in {"kitchen", "bathroom"})
           => result[1].images[i].pass2 = <<>>

NoCallAfterFailure ==
  failed # <<>> =>
    /\ ppc \in {"raised", "failed"}
    /\ failed[1].stage = "load" => callLog = <<>>
    /\ failed[1].stage # "load" =>
         /\ callLog # <<>>
         /\ callLog[Len(callLog)].stage = failed[1].stage
         /\ callLog[Len(callLog)].images = failed[1].images
    /\ failed[1].stage \in {"pass1", "pass2"} =>
         /\ \A k \in 1..Len(callLog) :
              /\ callLog[k].stage # "pass25"
              /\ callLog[k].images[1] <= failed[1].images[1]
         /\ Len(pass1_results) <= failed[1].images[1]
         /\ Len(pass2_results) < failed[1].images[1]
         /\ pass25_results = <<>>

\* feature detection failed on the first of three images; the run ended
\* after two calls and process_one returned
NoCallAfterFailureWitness ==
  /\ ppc = "failed"
  /\ image_count = 3
  /\ failed = <<[stage |-> "pass2", images |-> <<1>>]>>
  /\ Len(callLog) = 2
  /\ Len(pass1_results) = 1

\* C23: within one run, images are gated in enumeration order, the
\* run_pass2 call of an image is issued only after the run_pass1 call of
\* that image has returned, and no run_pass25 call is issued before
\* run_pass1 has returned for every image of the property.
StageOrder ==
  LET gating == SelectSeq(callLog, LAMBDA c : c.stage = "pass1")
  IN /\ \A j \in 1..Len(gating) : gating[j].images = <<j>>
     /\ \A k \in 1..Len(callLog) :
          /\ callLog[k].stage = "pass2" =>
               /\ callLog[k].images[1] <= Len(pass1_results)
               /\ \E j \in 1..(k - 1) :
                    /\ callLog[j].stage = "pass1"
                    /\ callLog[j].images = callLog[k].images
          /\ callLog[k].stage = "pass25" =>
               /\ Len(pass1_results) = image_count
               /\ \A i \in 1..image_count :
                    \E j \in 1..(k - 1) :
                      callLog[j].stage = "pass1" /\ callLog[j].images = <<i>>

\* three images were gated and feature-detected in turn, then the first
\* consolidation call was made
StageOrderWitness ==
  /\ image_count = 3
  /\ Len(callLog) = 7
  /\ [k \in 1..7 |-> callLog[k].stage] =
       <<"pass1", "pass2", "pass1", "pass2", "pass1", "pass2", "pass25">>
  /\ [k \in 1..6 |-> callLog[k].images[1]] = <<1, 1, 2, 2, 3, 3>>

\* C24: the confidence of a pass 1 answer never influences control flow:
\* a run whose pass 1 answers differ from those of another run in
\* confidence only makes the same calls on the same images, in the same
\* order, forms the same buckets and chunks and returns the same
\* target_images, review_images and rooms; its per-image list differs in
\* the recorded confidence at most.
ConfidenceNoInfluence ==
  run = 3 =>
    LET f == first[1]
        IsPrefix(q, r) == Len(q) <= Len(r) /\ q = SubSeq(r, 1, Len(q))
        Gated(raws) == [i \in 1..Len(raws) |-> RunPass1(raws[i])]
    IN /\ IsPrefix(callLog, f.callLog)
       /\ failed = <<>>
       /\ Len(pass1_results) = image_count =>
            RoomGroups(pass1_results) = RoomGroups(Gated(f.raw1Log))
       /\ ppc = "returned" =>
            /\ callLog = f.callLog
            /\ result[1].target_images = f.result.target_images
            /\ result[1].review_images = f.result.review_images
            /\ result[1].rooms = f.result.rooms
            /\ \A i \in 1..image_count :
                 /\ result[1].images[i].pass2 = f.result.images[i].pass2
                 /\ result[1].images[i].pass1.room_type =
                      f.result.images[i].pass1.room_type
                 /\ result[1].images[i].pass1.actionable =
                      f.result.images[i].pass1.actionable

\* two kitchen images were gated as actionable with confidence 0.9 in one
\* run and 0.5 in the other; both runs consolidated them in one call
ConfidenceNoInfluenceWitness ==
  /\ run = 3
  /\ ppc = "returned"
  /\ image_count = 2
  /\ \A i \in 1..2 :
       /\ first[1].raw1Log[i].confidence = 9
       /\ raw1Log[i].confidence = 5
       /\ pass1_results[i].actionable
  /\ callLog[5] = [stage |-> "pass25", room_type |-> "kitchen", images |-> <<1, 2>>]
  /\ result[1].target_images = <<1, 2>>

\* C26: the "rooms" list of a returned result has exactly one entry per
\* run_pass25 call of the run, the k-th entry being the answer to the k-th
\* call; the calls are made bucket by bucket, the buckets in the order in
\* which their room type first appears among the actionable images, and
\* within a bucket chunk by chunk in image order.
ConsolidationListInCallOrder ==
  LET calls == SelectSeq(callLog, LAMBDA c : c.stage = "pass25")
      InBucket(r) == {i \in 1..Len(pass1_results) :
                        pass1_results[i].actionable /\ pass1_results[i].room_type = r}
      FirstOf(r) == CHOOSE i \in InBucket(r) : \A j \in InBucket(r) : i <= j
  IN /\ Len(raw25Log) + (IF failed # <<>> /\ failed[1].stage = "pass25" THEN 1 ELSE 0)
          = Len(calls)
     /\ ppc = "returned" =>
          /\ Len(result[1].rooms) = Len(calls)
          /\ \A k \in 1..Len(calls) : result[1].rooms[k] = raw25Log[k]
     /\ \A j, k \in 1..Len(calls) :
          j < k =>
            IF calls[j].room_type = calls[k].room_type
              THEN calls[j].images[Len(calls[j].images)] < calls[k].images[1]
              ELSE FirstOf(calls[j].room_type) < FirstOf(calls[k].room_type)

\* a bathroom, two kitchens and a second bathroom: the bathroom bucket was
\* consolidated first, then the kitchen bucket, and the two answers, which
\* differ, are listed in this order
ConsolidationListInCallOrderWitness ==
  /\ ppc = "returned"
  /\ SelectSeq(callLog, LAMBDA c : c.stage = "pass25") =
       <<[stage |-> "pass25", room_type |-> "bathroom", images |-> <<1, 4>>],
         [stage |-> "pass25", room_type |-> "kitchen", images |-> <<2, 3>>]>>
  /\ raw25Log[1] # raw25Log[2]
  /\ result[1].rooms = raw25Log

\* C29: in every result returned by _process_images, target_images and
\* review_images partition the per-image list: no filename is in both,
\* every processed filename is in one of them, each is listed once and in
\* the order of "images", and target_images holds exactly the images
\* gated as actionable with room_type kitchen or bathroom.
TargetReviewPartition ==
  result # <<>> =>
    LET r == result[1]
        Elems(q) == {q[j] : j \in 1..Len(q)}
        Increasing(q) == \A j \in 1..(Len(q) - 1) : q[j] < q[j + 1]
    IN /\ Elems(r.target_images) \cap Elems(r.review_images) = {}
       /\ Elems(r.target_images) \cup Elems(r.review_images)
            = {r.images[i].filename : i \in 1..Len(r.images)}
       /\ {r.images[i].filename : i \in 1..Len(r.images)} = 1..image_count
       /\ Elems(r.target_images) =
            {i \in 1..image_count :
               /\ pass1_results[i].actionable
               /\ pass1_results[i].room_type \in {"kitchen", "bathroom"}}
       /\ Increasing(r.target_images)
       /\ Increasing(r.review_images)

\* a kitchen image gated as not actionable, an actionable bathroom image
\* and an exterior image: the second is the only target, the other two
\* are left for review
TargetReviewPartitionWitness ==
  /\ result # <<>>
  /\ image_count = 3
  /\ pass1_results[1].room_type = "kitchen" /\ ~pass1_results[1].actionable
  /\ pass1_results[2].room_type = "bathroom" /\ pass1_results[2].actionable
  /\ pass1_results[3].room_type = "exterior"
  /\ result[1].target_images = <<2>>
  /\ result[1].review_images = <<1, 3>>

\* C20: when a run fails because a call exhausted its retries, the single
\* error that reaches the caller identifies the stage (gating, feature
\* detection or consolidation) and the image, or the room group, whose call
\* failed.
ErrorIdentifiesFailure ==
  (failed # <<>> /\ failed[1].stage \in {"pass1", "pass2", "pass25"}) =>
    /\ Len(error) = 1
    /\ error[1].stage = failed[1].stage
    /\ failed[1].stage \in {"pass1", "pass2"} => error[1].images = failed[1].images
    /\ failed[1].stage = "pass25" =>
         /\ error[1].room_type = callLog[Len(callLog)].room_type
         /\ error[1].images = failed[1].images

\* ------------------------------------------------ claims on the start-up

\* C19: any missing or invalid configuration value (no API key for the
\* selected provider, requests_per_minute <= 0, negative max_retries,
\* non-positive retry_backoff_seconds, a number that does not parse) makes
\* load_config or create_client fail: a client exists, and an inference
\* call is made, only under a configuration free of all of these.
NoCallWithInvalidConfig ==
  (cpc = "ready" \/ fnCalls > 0) =>
    /\ env[1].parses
    /\ env[1].provider = "google" => env[1].google_api_key
    /\ env[1].provider # "google" => env[1].openai_api_key
    /\ env[1].requests_per_minute > 0
    /\ env[1].max_retries >= 0
    /\ env[1].retry_backoff_seconds > 0

\* ------------------------------------- claims on a run and its requests

\* C27: the provider requests of a property run number at most
\* (max_retries + 1) times its inference calls, and its inference calls
\* are bounded by its number of images n: one gating and one feature
\* detection call per image and one consolidation call per chunk, at most
\* 2n + n/2 in all; so a run in which every request returns or fails ends,
\* with a result or a propagated error, after boundedly many requests.
RunBounded ==
  cpc = "ready" =>
    /\ requestsSent + Len(sent) <= (config[1].max_retries + 1) * callsBegun
    /\ callsBegun <= 2 * image_count + image_count \div 2
    /\ ppc \in {"returned", "written", "raised", "failed"} => Len(callLog) = callsBegun

\* ------------------------------------------------- claims on scan mode

\* C30: in scan mode a case whose pipeline run fails does not stop the
\* batch: process_one is run on every case of to_process, the failed ones
\* and those after them included; no results file exists for a case whose
\* run failed; and the count printed at the end is the number of cases
\* whose results file was written in this batch.
ScanSurvivesFailure ==
  LET Written == {c \in Cases : results[c]} \ {skipped[k] : k \in 1..Len(skipped)}
  IN spc \in {"loop", "done"} =>
       /\ Len(outcomes) = pos - 1
       /\ \A k \in 1..Len(outcomes) :
            /\ outcomes[k] = "failed" => ~results[to_process[k]]
            /\ outcomes[k] = "written" => results[to_process[k]]
       /\ processed = Cardinality(Written)
       /\ spc = "done" =>
            /\ Len(outcomes) = Len(to_process)
            /\ reported = <<Cardinality(Written)>>

\* of two cases to process the first failed and the second was processed
\* and written; the count printed is 1
ScanSurvivesFailureWitness ==
  /\ spc = "done"
  /\ to_process = <<1, 2>>
  /\ outcomes = <<"failed", "written">>
  /\ results = [c \in Cases |-> c = 2]
  /\ reported = <<1>>

\* C31: a case that has a results file is never processed again, in scan
\* mode and in single mode alike: process_one runs, and inference calls
\* are made, only for a case without a results file; the files a run
\* finds are still there and were not written by it; and over all runs
\* of main no results file is written twice.
ExistingResultsKept ==
  LET Elems(q) == {q[k] : k \in 1..Len(q)}
  IN /\ \A j, k \in 1..Len(fileLog) :
          j < k => fileLog[j].case # fileLog[k].case
     /\ \A k \in 1..Len(fileLog) :
          /\ results[fileLog[k].case]
          /\ fileLog[k].run = runsDone + 1 => fileLog[k].case \notin Elems(skipped)
     /\ \A c \in Elems(skipped) : results[c]
     /\ (Processing /\ ppc # "idle") =>
          /\ ~results[to_process[pos]]
          /\ to_process[pos] \notin Elems(skipped)

\* a first run in scan mode wrote the results of case 1 and failed on case
\* 2; a second run in scan mode skipped case 1 and wrote the results of
\* case 2
ExistingResultsKeptWitness ==
  /\ runsDone = 1
  /\ spc = "done"
  /\ skipped = <<1>>
  /\ to_process = <<2>>
  /\ fileLog = <<[run |-> 1, case |-> 1], [run |-> 2, case |-> 2]>>
  /\ reported = <<1>>

\* ---------------------------------------- claims on the web service

\* C32: every entry that POST /api/feedback acknowledged with status 201
\* is in the stored feedback list afterwards, also when several POST
\* requests are handled at the same time: no acknowledged entry is lost.
NoAcknowledgedEntryLost ==
  LET stored == LoadFeedback(feedback_json)
  IN \A k \in 1..Len(acked) :
       \E j \in 1..Len(stored) : stored[j] = acked[k]


\* C33: GET /api/stats counts each (property_id, filename) pair once, with
\* the latest classification stored for it: correct + fp + fn =
\* total_classified = the number of distinct pairs that have at least one
\* classification entry in the stored list, and each count is the number
\* of pairs whose last classification entry is that classification.
StatsCountLatestPerPair ==
  \A k \in 1..Len(stats) :
    LET read == stats[k].read
        json == stats[k].json
        Classified == {j \in 1..Len(read) : read[j].classification # "none"}
        PairOf(j) == <<read[j].property_id, read[j].filename>>
        Pairs == {PairOf(j) : j \in Classified}
        Last(p) == CHOOSE j \in Classified :
                     /\ PairOf(j) = p
                     /\ \A i \in Classified : PairOf(i) = p => i <= j
        Latest(c) == {p \in Pairs : read[Last(p)].classification = c}
    IN /\ json.total_classified = json.correct + json.fp + json.fn
       /\ json.total_classified = Cardinality(Pairs)
       /\ json.correct = Cardinality(Latest("correct"))
       /\ json.fp = Cardinality(Latest("fp"))
       /\ json.fn = Cardinality(Latest("fn"))

\* statistics over three stored entries of two pairs, one pair classified
\* twice: the later classification counts
StatsCountLatestPerPairWitness ==
  /\ Len(stats) = 1
  /\ Len(stats[1].read) = 3
  /\ \E i, j \in 1..3 :
       /\ i < j
       /\ stats[1].read[i].filename = stats[1].read[j].filename
       /\ stats[1].read[i].classification = "correct"
       /\ stats[1].read[j].classification = "fp"
  /\ stats[1].json.total_classified = 2
  /\ stats[1].json.fp = 1


\* C34: a POST /api/feedback request that is answered with status 400 (no
\* JSON body, property_id or filename missing, neither verdict nor
\* classification, or a classification outside correct, fp, fn) leaves
\* the stored feedback list and the ground-truth folder unchanged.
RejectedPostChangesNothing ==
  [][\A h \in Handlers :
       (hnd[h].status # 400 /\ hnd'[h].status = 400)
         => /\ feedback_json' = feedback_json
            /\ ground_truth' = ground_truth]_vars

\* a request was answered with status 400 while the stored list holds an
\* entry and the ground-truth folder an image
RejectedPostChangesNothingWitness ==
  /\ \E h \in Handlers : hnd[h].pc = "done" /\ hnd[h].status = 400
  /\ Len(LoadFeedback(feedback_json)) >= 1
  /\ ground_truth # {}

====
